---- MODULE Spec2Model ----
(***************************************************************************)
(* Safety control plane of the power-management firmware:                  *)
(*   firmware/src/safety/safety_fsm.c        the 5-state safety FSM        *)
(*   firmware/src/safety/fault_aggregator.c  the priority aggregator       *)
(*   firmware/src/clock/clk_event_handler.c  the clock-loss flag handler   *)
(*   firmware/src/memory/ecc_handler.c       the ECC fault flag handler    *)
(*   firmware/src/hal/interrupt_handler.c    the three fault ISR entries   *)
(*   firmware/src/clock/clk_monitor_service.c  the clock recovery service  *)
(*                                                                         *)
(* Bytes are naturals in 0..255.  The enum-typed fields of safety_status_t *)
(* are byte wide on the documented target (ARM Cortex-M4, AAPCS short      *)
(* enums; every enumerator fits in 8 bits), so a stored ~v is 255 - v.     *)
(***************************************************************************)
EXTENDS Integers, Sequences, FiniteSets, TLC

\* ------------------------------------------------------------------ bounds

\* fault_count (uint16_t) is explored up to this value.
MaxFaultCount == 2

\* interrupts of one source taken in one run of the handler specifications
MaxClkEvents == 3

\* entries of the clock-loss ISR in one run of the nesting specification
MaxNestEntries == 10

\* completed calls of one entry point of interrupt_handler.c
MaxHalCalls == 1

\* entries of the handlers of interrupt_handler.c in one run of the nesting
\* specification
MaxHalEntries == 5

\* counter updates of the statistics in one run
MaxStatsUpdates == 1
MaxStatsCalls == 2

\* recovery attempts the clock service starts
MaxAttempts == 2

\* ------------------------------------------------------- bitwise helpers

RECURSIVE BitXor(_, _)
BitXor(a, b) ==
    IF a = 0 THEN b
    ELSE IF b = 0 THEN a
    ELSE (((a % 2) + (b % 2)) % 2) + 2 * BitXor(a \div 2, b \div 2)

RECURSIVE BitAnd(_, _)
BitAnd(a, b) ==
    IF a = 0 \/ b = 0 THEN 0
    ELSE ((a % 2) * (b % 2)) + 2 * BitAnd(a \div 2, b \div 2)

RECURSIVE BitOr(_, _)
BitOr(a, b) ==
    IF a = 0 THEN b
    ELSE IF b = 0 THEN a
    ELSE (IF (a % 2) = 1 \/ (b % 2) = 1 THEN 1 ELSE 0) + 2 * BitOr(a \div 2, b \div 2)

\* ~v stored into an 8-bit field
Not8(v) == 255 - v

\* --------------------------------------------------------- safety_types.h

SAFETY_STATE_INIT == 85
SAFETY_STATE_NORMAL == 170
SAFETY_STATE_FAULT == 204
SAFETY_STATE_SAFE_STATE == 51
SAFETY_STATE_RECOVERY == 153
SAFETY_STATE_INVALID == 255

FAULT_TYPE_NONE == 0
FAULT_TYPE_VDD == 1
FAULT_TYPE_CLK == 2
FAULT_TYPE_MEM_ECC == 4
FAULT_TYPE_INVALID == 255

RECOVERY_PENDING == 0

\* power_api.c: power mode values and power status bits
POWER_MODE_NORMAL == 0
POWER_MODE_SAFE_STATE == 1
POWER_STATUS_OK == 1
POWER_STATUS_VDD_LOW == 2

\* a uint32_t as two 16-bit limbs, value = hi * 65536 + lo
U32(hi, lo) == [hi |-> hi, lo |-> lo]

U32Zero == U32(0, 0)

\* 0xFFFFFFFF
U32Max == U32(65535, 65535)

\* c + 1 in uint32_t arithmetic (wraps to 0 after 0xFFFFFFFF)
U32Inc(c) ==
    IF c.lo < 65535 THEN U32(c.hi, c.lo + 1)
    ELSE U32((c.hi + 1) % 65536, 0)


\* ------------------------------------------------- uint32_t arithmetic
\* A uint32_t is [hi, lo], two 16-bit halves.

\* a + b in uint32_t arithmetic
U32Add(a, b) ==
    LET lo == a.lo + b.lo IN
    U32((a.hi + b.hi + (lo \div 65536)) % 65536, lo % 65536)

\* c * m in uint32_t arithmetic, for an int constant m below 2^15
U32MulSmall(c, m) ==
    LET lo == c.lo * m IN
    U32((c.hi * m + (lo \div 65536)) % 65536, lo % 65536)

\* a natural below 2^31 as a uint32_t
U32OfNat(n) == U32(n \div 65536, n % 65536)

RECURSIVE U32DivFrom(_, _, _)
\* long division of the hexadecimal digits 7..k of p by t, one digit per
\* step: the quotient and the remainder so far.  The values inside a step are
\* not cut to 32 bits: their hi may exceed 0xFFFF.
U32DivFrom(p, t, k) ==
    LET Digit(c, n) ==
            IF n < 4 THEN (c.lo \div (16 ^ n)) % 16 ELSE (c.hi \div (16 ^ (n - 4))) % 16
        ShiftIn(c, digit) ==
            LET lo == 16 * c.lo + digit IN U32(16 * c.hi + (lo \div 65536), lo % 65536)
        Mul(c, m) ==
            LET lo == c.lo * m IN U32(c.hi * m + (lo \div 65536), lo % 65536)
        Less(a, b) == a.hi < b.hi \/ (a.hi = b.hi /\ a.lo < b.lo)
        Sub(a, b) ==
            IF a.lo >= b.lo THEN U32(a.hi - b.hi, a.lo - b.lo)
            ELSE U32(a.hi - b.hi - 1, a.lo + 65536 - b.lo)
    IN IF k > 7 THEN [q |-> U32Zero, r |-> U32Zero]
       ELSE LET prev == U32DivFrom(p, t, k + 1)
                r2 == ShiftIn(prev.r, Digit(p, k))
                digit == CHOOSE d \in 0..15 : /\ ~Less(r2, Mul(t, d))
                                              /\ Less(r2, Mul(t, d + 1))
            IN [q |-> ShiftIn(prev.q, digit), r |-> Sub(r2, Mul(t, digit))]

\* p / t of two uint32_t, t > 0
U32Div(p, t) == U32DivFrom(p, t, 0).q


\* the macro with a wrong signature constant
VERIFY_FAULT_FLAG_WrongMask(flag, cmp_flag) == BitXor(flag, cmp_flag) # 254

VERIFY_FAULT_FLAG(flag, cmp_flag) == BitXor(flag, cmp_flag) = 255

VERIFY_STATE(state, state_cmp) == BitXor(state, state_cmp) = 255

\* ------------------------------------------------------------------ state

VARIABLES
    g_safety_status,     \* safety_fsm.c: the safety status record
    g_fsm_initialized,   \* safety_fsm.c: initialization flag
    g_aggregator_busy,   \* fault_aggregator.c: the busy gate
    op,                  \* the operation of the last step
    arg,                 \* its argument (0 when it takes none)
    ret,                 \* its return value
    out,                 \* *aggregated_faults / returned fault of the last call
    prio,                \* *priority of the last fault_get_highest_priority
    corruption_event     \* history: a corruption event has been detected

fsm_vars == <<g_safety_status, g_fsm_initialized, g_aggregator_busy,
              op, arg, ret, out, prio, corruption_event>>

\* two callers of the aggregator, each at a statement of its call
VARIABLES
    gate_pc,             \* caller -> the statement it is at
    gate_ret,            \* caller -> value returned by its last call
    gate_out             \* caller -> its *aggregated_faults

gate_vars == <<gate_pc, gate_ret, gate_out>>

\* clk_event_handler.c: the handler's statics and a task-context caller
VARIABLES
    clk_fault_flag,
    clk_fault_flag_complement,
    clk_fault_event_count,
    clk_loss_timestamp,
    clk_isr_nesting_level,
    task_pc,             \* the statement the task-context call is at
    fault_copy,          \* locals of clk_event_handler_get_fault_flag
    complement_copy,
    out_fault_detected,  \* *out_fault_detected
    task_ret             \* value returned by the last task-context call

clk_vars == <<clk_fault_flag, clk_fault_flag_complement, clk_fault_event_count,
              clk_loss_timestamp, clk_isr_nesting_level,
              task_pc, fault_copy, complement_copy, out_fault_detected, task_ret>>

\* the clock handler's interrupt entries: how many were taken, the counter
\* value the run started from, and the frames of a nest of entries
VARIABLES
    clk_isr_entries,     \* entries of clk_event_handler_clk_loss_isr so far
    clk_count_start,     \* clk_fault_event_count at the start of the run
    clk_isr_stack,       \* statement each suspended or running entry is at
    clk_nest_overflowed  \* the nesting-limit branch ran in the current nest

clk_isr_vars == <<clk_isr_entries, clk_count_start, clk_isr_stack, clk_nest_overflowed>>

\* ecc_handler.c: mem_fault_state and the calls on it
VARIABLES
    mem_fault_flag,
    mem_fault_flag_complement,
    mem_isr_nesting_count,
    mem_fault_event_count,
    mem_isr_entries,     \* entries of ecc_fault_isr so far
    mem_count_start,     \* mem_fault_event_count at the start of the run
    ecc_op,              \* the last call on the ECC handler
    ecc_ret              \* its return value

ecc_vars == <<mem_fault_flag, mem_fault_flag_complement, mem_isr_nesting_count,
              mem_fault_event_count, mem_isr_entries, mem_count_start,
              ecc_op, ecc_ret>>

\* interrupt_handler.c: the statics of the three fault ISR entry points
VARIABLES
    g_isr_nesting_level, \* source -> re-entrance counter
    g_isr_call_counts,   \* source -> completed calls
    hal_isr_stack        \* frames of a nest of entries: [src, pc]

hal_vars == <<g_isr_nesting_level, g_isr_call_counts, hal_isr_stack>>

\* clk_monitor_service.c: the recovery service record and the calls on it
VARIABLES
    clk_service_state,
    clk_recovery_timeout_counter,
    clk_stability_counter,
    clk_recovery_attempts,
    svc_op,              \* the last call on the service
    svc_ret,             \* its return value
    svc_arg,             \* the signal value the last tick sampled
    svc_from,            \* the state the last call found the service in
    svc_hist,            \* history: the samples of the ticks since the service
                         \* last entered FAULT_ACTIVE, oldest first
    svc_timed_out        \* history: the service sits in IDLE after a recovery
                         \* timeout, the fault never sampled deasserted since

svc_vars == <<clk_service_state, clk_recovery_timeout_counter,
              clk_stability_counter, clk_recovery_attempts, svc_op, svc_ret,
              svc_arg, svc_from, svc_hist, svc_timed_out>>

\* fault_statistics.c: the statistics record and the calls on it
VARIABLES
    g_fault_stats,       \* detected / undetected per source, recovery_successes,
                         \* recovery_failures (32 bit), uptime_ms (64 bit)
    g_stats_locked,      \* the update lock
    stats_op,            \* the last call on the statistics
    stats_arg,           \* its fault_type argument (0 when it takes none)
    stats_ret,           \* its return value
    stats_out,           \* *dc_percent / *fph of the last call
    stats_updates        \* counter updates made so far

stats_vars == <<g_fault_stats, g_stats_locked, stats_op, stats_arg, stats_ret, stats_out,
                stats_updates>>

\* fault_statistics.c, one statement of a call per step: the calls in progress
\* in the task and in an interrupt that preempts it
VARIABLES
    stats_pc,            \* per context: where its call stands
    stats_fn,            \* per context: the function called
    stats_call_arg,      \* per context: its argument
    stats_call_ret,      \* per context: "none" while it runs, then the value returned
    stats_snapshot,      \* per context: the fields get_statistics has copied to *stats
    stats_seen,          \* per context: the records g_fault_stats has held since its
                         \* get_statistics was called
    stats_calls          \* calls begun so far

stats_call_vars == <<stats_pc, stats_fn, stats_call_arg, stats_call_ret, stats_snapshot,
                     stats_seen, stats_calls>>

\* fault_aggregator.c: the configured priorities
VARIABLES
    g_fault_priorities   \* vdd_priority, clk_priority, mem_priority

\* power_api.c: the power state and the registers of the power controller
VARIABLES
    g_power_module_initialized,
    g_power_state,       \* power_mode, power_mode_cmp, vdd_voltage_mv,
                         \* status_flags, last_error
    POWER_MODE_REG,      \* the value last written to the power mode register
    POWER_CONTROL_REG,   \* the power control register
    power_op,            \* the last call on the power API
    power_ret,           \* its return value
    power_out            \* *mode of the last power_get_status

power_vars == <<g_power_module_initialized, g_power_state, POWER_MODE_REG,
                POWER_CONTROL_REG, power_op, power_ret, power_out>>

\* the variables each component leaves alone
not_fsm_vars == <<gate_vars, clk_vars, clk_isr_vars, ecc_vars, hal_vars, svc_vars, stats_vars,
      power_vars, g_fault_priorities, stats_call_vars>>
not_gate_vars == <<clk_vars, clk_isr_vars, ecc_vars, hal_vars, svc_vars, stats_vars,
      power_vars, g_fault_priorities, stats_call_vars>>
not_clk_vars == <<fsm_vars, gate_vars, clk_isr_vars, ecc_vars, hal_vars, svc_vars, stats_vars,
      power_vars, g_fault_priorities, stats_call_vars>>
not_clk_handler_vars == <<fsm_vars, gate_vars, ecc_vars, hal_vars, svc_vars, stats_vars,
      power_vars, g_fault_priorities, stats_call_vars>>
not_ecc_vars == <<fsm_vars, gate_vars, clk_vars, clk_isr_vars, hal_vars, svc_vars, stats_vars,
      power_vars, g_fault_priorities, stats_call_vars>>
not_hal_vars == <<gate_vars, clk_vars, clk_isr_vars, ecc_vars, svc_vars, stats_vars,
      power_vars, g_fault_priorities, stats_call_vars>>
not_stats_vars == <<fsm_vars, gate_vars, clk_vars, clk_isr_vars, ecc_vars, hal_vars, svc_vars,
      power_vars, g_fault_priorities, stats_call_vars>>
not_stats_call_vars == <<fsm_vars, gate_vars, clk_vars, clk_isr_vars, ecc_vars, hal_vars,
      svc_vars, power_vars, g_fault_priorities>>
not_power_vars == <<fsm_vars, gate_vars, clk_vars, clk_isr_vars, ecc_vars, hal_vars, svc_vars,
      stats_vars, g_fault_priorities, stats_call_vars>>
not_svc_vars == <<fsm_vars, gate_vars, clk_vars, clk_isr_vars, ecc_vars, hal_vars, stats_vars,
      power_vars, g_fault_priorities, stats_call_vars>>

\* the contexts a statistics call runs in: the task, and an interrupt that
\* preempts it
StatsContexts == {"task", "isr"}

\* the static initializer of g_safety_status
InitialStatus ==
    [ current_state     |-> SAFETY_STATE_INIT,
      current_state_cmp |-> Not8(SAFETY_STATE_INIT),
      active_faults     |-> FAULT_TYPE_NONE,
      active_faults_cmp |-> Not8(FAULT_TYPE_NONE),
      recovery_status   |-> RECOVERY_PENDING,
      fault_count       |-> 0,
      timestamp_ms      |-> 0,
      pwr_fault |-> 0, pwr_fault_cmp |-> 255,
      clk_fault |-> 0, clk_fault_cmp |-> 255,
      mem_fault |-> 0, mem_fault_cmp |-> 255 ]

\* ---------------------------------------------------------- safety_fsm.c

\* rows = from, columns = to, in the order of fsm_state_to_index (+1)
g_transition_matrix ==
    << <<FALSE, TRUE,  FALSE, FALSE, FALSE, FALSE>>,
       <<FALSE, TRUE,  TRUE,  TRUE,  FALSE, FALSE>>,
       <<FALSE, FALSE, TRUE,  TRUE,  TRUE,  FALSE>>,
       <<FALSE, FALSE, FALSE, TRUE,  TRUE,  FALSE>>,
       <<FALSE, TRUE,  TRUE,  TRUE,  TRUE,  FALSE>>,
       <<FALSE, FALSE, FALSE, FALSE, FALSE, FALSE>> >>

fsm_state_to_index(state) ==
    CASE state = SAFETY_STATE_INIT       -> 0
      [] state = SAFETY_STATE_NORMAL     -> 1
      [] state = SAFETY_STATE_FAULT      -> 2
      [] state = SAFETY_STATE_SAFE_STATE -> 3
      [] state = SAFETY_STATE_RECOVERY   -> 4
      [] state = SAFETY_STATE_INVALID    -> 5
      [] OTHER                           -> 5

\* a matrix that also admits FAULT -> NORMAL
TransitionAllowed_FaultToNormal(current, next) ==
    \/ g_transition_matrix[fsm_state_to_index(current) + 1][fsm_state_to_index(next) + 1]
    \/ (current = SAFETY_STATE_FAULT /\ next = SAFETY_STATE_NORMAL)

\* g_transition_matrix[current_idx][next_idx]
TransitionAllowed(current, next) ==
    g_transition_matrix[fsm_state_to_index(current) + 1][fsm_state_to_index(next) + 1]

\* fsm_init without the guard against a second initialization
FsmInit_NoGuard(st, inited) ==
    [ st |-> [st EXCEPT !.current_state = SAFETY_STATE_INIT,
                        !.current_state_cmp = Not8(SAFETY_STATE_INIT),
                        !.active_faults = FAULT_TYPE_NONE,
                        !.active_faults_cmp = Not8(FAULT_TYPE_NONE),
                        !.fault_count = 0,
                        !.pwr_fault = 0, !.pwr_fault_cmp = 255,
                        !.clk_fault = 0, !.clk_fault_cmp = 255,
                        !.mem_fault = 0, !.mem_fault_cmp = 255],
      inited |-> TRUE,
      ret |-> TRUE ]

\* fsm_init on status st: the record written and the value returned
FsmInit(st, inited) ==
    IF inited THEN [st |-> st, inited |-> inited, ret |-> FALSE]
    ELSE [ st |-> [ current_state     |-> SAFETY_STATE_INIT,
                    current_state_cmp |-> Not8(SAFETY_STATE_INIT),
                    active_faults     |-> FAULT_TYPE_NONE,
                    active_faults_cmp |-> Not8(FAULT_TYPE_NONE),
                    recovery_status   |-> RECOVERY_PENDING,
                    fault_count       |-> 0,
                    timestamp_ms      |-> 0,
                    pwr_fault |-> 0, pwr_fault_cmp |-> 255,
                    clk_fault |-> 0, clk_fault_cmp |-> 255,
                    mem_fault |-> 0, mem_fault_cmp |-> 255 ],
           inited |-> TRUE,
           ret |-> TRUE ]

\* fsm_transition(next_state) on status st
FsmTransition(st, inited, next_state) ==
    IF ~inited THEN [st |-> st, ret |-> FALSE]
    ELSE IF ~TransitionAllowed(st.current_state, next_state)
    THEN [ st |-> [st EXCEPT !.current_state = SAFETY_STATE_INVALID,
                             !.current_state_cmp = Not8(SAFETY_STATE_INVALID)],
           ret |-> FALSE ]
    ELSE [ st |-> [st EXCEPT !.current_state = next_state,
                             !.current_state_cmp = Not8(next_state),
                             !.timestamp_ms = 0],
           ret |-> TRUE ]

\* fsm_get_state() on status st
FsmGetState(st) ==
    IF BitXor(st.current_state, st.current_state_cmp) # 255
    THEN SAFETY_STATE_INVALID
    ELSE st.current_state

\* fsm_get_status(&status): TRUE iff the copy is made
FsmGetStatus(st) ==
    /\ BitXor(st.current_state, st.current_state_cmp) = 255
    /\ BitXor(st.active_faults, st.active_faults_cmp) = 255

\* the three flag checks of fsm_aggregate_faults pass
FsmFlagsVerified(st) ==
    /\ VERIFY_FAULT_FLAG(st.pwr_fault, st.pwr_fault_cmp)
    /\ VERIFY_FAULT_FLAG(st.clk_fault, st.clk_fault_cmp)
    /\ VERIFY_FAULT_FLAG(st.mem_fault, st.mem_fault_cmp)

\* an aggregation that forgets the memory source
AggregatedFlags_NoMem(st) ==
    BitOr(IF st.pwr_fault # 0 THEN FAULT_TYPE_VDD ELSE FAULT_TYPE_NONE,
          IF st.clk_fault # 0 THEN FAULT_TYPE_CLK ELSE FAULT_TYPE_NONE)

\* the value of `aggregated` built by fsm_aggregate_faults
AggregatedFlags(st) ==
    BitOr(BitOr(IF st.pwr_fault # 0 THEN FAULT_TYPE_VDD ELSE FAULT_TYPE_NONE,
                IF st.clk_fault # 0 THEN FAULT_TYPE_CLK ELSE FAULT_TYPE_NONE),
          IF st.mem_fault # 0 THEN FAULT_TYPE_MEM_ECC ELSE FAULT_TYPE_NONE)

\* fsm_aggregate_faults() on status st
FsmAggregateFaults(st, inited) ==
    LET current == FsmGetState(st) IN
    IF current = SAFETY_STATE_INVALID THEN [st |-> st, ret |-> FALSE]
    ELSE IF ~FsmFlagsVerified(st) THEN [st |-> st, ret |-> FALSE]
    ELSE LET aggregated == AggregatedFlags(st)
             st1 == [st EXCEPT !.active_faults = aggregated,
                               !.active_faults_cmp = Not8(aggregated)]
         IN IF aggregated # FAULT_TYPE_NONE
            THEN LET st2 == [st1 EXCEPT !.fault_count = (st1.fault_count + 1) % 65536]
                 IN IF current = SAFETY_STATE_NORMAL
                    THEN FsmTransition(st2, inited, SAFETY_STATE_FAULT)
                    ELSE [st |-> st2, ret |-> TRUE]
            ELSE [st |-> st1, ret |-> TRUE]

\* fsm_clear_faults that clears every flag once any bit is requested
FsmClearFaults_ClearsAll(st, inited, faults_to_clear) ==
    FsmAggregateFaults(
        IF faults_to_clear # 0
        THEN [st EXCEPT !.pwr_fault = 0, !.pwr_fault_cmp = 255,
                        !.clk_fault = 0, !.clk_fault_cmp = 255,
                        !.mem_fault = 0, !.mem_fault_cmp = 255]
        ELSE st,
        inited)

\* fsm_clear_faults(faults_to_clear) on status st
FsmClearFaults(st, inited, faults_to_clear) ==
    LET a == IF BitAnd(faults_to_clear, FAULT_TYPE_VDD) # 0
             THEN [st EXCEPT !.pwr_fault = 0, !.pwr_fault_cmp = 255] ELSE st
        b == IF BitAnd(faults_to_clear, FAULT_TYPE_CLK) # 0
             THEN [a EXCEPT !.clk_fault = 0, !.clk_fault_cmp = 255] ELSE a
        c == IF BitAnd(faults_to_clear, FAULT_TYPE_MEM_ECC) # 0
             THEN [b EXCEPT !.mem_fault = 0, !.mem_fault_cmp = 255] ELSE b
    IN FsmAggregateFaults(c, inited)

\* ----------------------------------------------------- fault_aggregator.c

\* the three flag checks of fault_aggregate on its copy of the status pass
AggregatorFlagsVerified(current_status) ==
    /\ VERIFY_FAULT_FLAG(current_status.pwr_fault, current_status.pwr_fault_cmp)
    /\ VERIFY_FAULT_FLAG(current_status.clk_fault, current_status.clk_fault_cmp)
    /\ VERIFY_FAULT_FLAG(current_status.mem_fault, current_status.mem_fault_cmp)

\* `result` of fault_aggregate, built from its copy of the status
AggregatorResult(current_status) ==
    BitOr(BitOr(IF current_status.pwr_fault # 0 THEN FAULT_TYPE_VDD ELSE FAULT_TYPE_NONE,
                IF current_status.clk_fault # 0 THEN FAULT_TYPE_CLK ELSE FAULT_TYPE_NONE),
          IF current_status.mem_fault # 0 THEN FAULT_TYPE_MEM_ECC ELSE FAULT_TYPE_NONE)

\* a selection that tests the memory bit before the clock bit
HighestPriorityFault_MemFirst(result) ==
    IF BitAnd(result, FAULT_TYPE_VDD) # 0 THEN FAULT_TYPE_VDD
    ELSE IF BitAnd(result, FAULT_TYPE_MEM_ECC) # 0 THEN FAULT_TYPE_MEM_ECC
    ELSE IF BitAnd(result, FAULT_TYPE_CLK) # 0 THEN FAULT_TYPE_CLK
    ELSE FAULT_TYPE_NONE

\* step 2 of fault_aggregate: highest_priority_fault
HighestPriorityFault(result) ==
    IF BitAnd(result, FAULT_TYPE_VDD) # 0 THEN FAULT_TYPE_VDD
    ELSE IF BitAnd(result, FAULT_TYPE_CLK) # 0 THEN FAULT_TYPE_CLK
    ELSE IF BitAnd(result, FAULT_TYPE_MEM_ECC) # 0 THEN FAULT_TYPE_MEM_ECC
    ELSE FAULT_TYPE_NONE

\* fault_get_highest_priority(&priority): the fault returned and *priority
FaultGetHighestPriority_Configured(st) ==
    LET conf == [pwr |-> g_fault_priorities.vdd_priority,
                 clk |-> g_fault_priorities.clk_priority,
                 mem |-> g_fault_priorities.mem_priority]
        bit == [pwr |-> FAULT_TYPE_VDD, clk |-> FAULT_TYPE_CLK,
                mem |-> FAULT_TYPE_MEM_ECC]
        active == {s \in {"pwr", "clk", "mem"} : BitAnd(st.active_faults, bit[s]) # 0}
    IN  IF ~FsmGetStatus(st) THEN [fault |-> FAULT_TYPE_INVALID, priority |-> 255]
        ELSE IF active = {} THEN [fault |-> FAULT_TYPE_NONE, priority |-> 0]
        ELSE LET first == CHOOSE s \in active :
                              \A t \in active : conf[s] <= conf[t]
             IN  [fault |-> bit[first], priority |-> conf[first]]

FaultGetHighestPriority(st) ==
    IF ~FsmGetStatus(st) THEN [fault |-> FAULT_TYPE_INVALID, priority |-> 255]
    ELSE IF BitAnd(st.active_faults, FAULT_TYPE_VDD) # 0
         THEN [fault |-> FAULT_TYPE_VDD, priority |-> 1]
    ELSE IF BitAnd(st.active_faults, FAULT_TYPE_CLK) # 0
         THEN [fault |-> FAULT_TYPE_CLK, priority |-> 2]
    ELSE IF BitAnd(st.active_faults, FAULT_TYPE_MEM_ECC) # 0
         THEN [fault |-> FAULT_TYPE_MEM_ECC, priority |-> 3]
    ELSE [fault |-> FAULT_TYPE_NONE, priority |-> 0]

\* value of *aggregated_faults when the call does not write it
NotWritten == -1

\* fault_aggregate(&aggregated_faults), run to completion on status st
FaultAggregate(st, inited, busy) ==
    IF busy THEN [st |-> st, busy |-> busy, ret |-> FALSE, out |-> NotWritten]
    ELSE IF ~FsmGetStatus(st)
    THEN [st |-> st, busy |-> FALSE, ret |-> FALSE, out |-> NotWritten]
    ELSE IF ~AggregatorFlagsVerified(st)
    THEN [st |-> st, busy |-> FALSE, ret |-> FALSE, out |-> NotWritten]
    ELSE LET highest == HighestPriorityFault(AggregatorResult(st))
             r == FsmAggregateFaults(st, inited)
         IN [st |-> r.st, busy |-> FALSE, ret |-> r.ret, out |-> highest]

\* fault_aggregator_reset(faults_to_clear), run to completion on status st
FaultAggregatorReset(st, inited, busy, faults_to_clear) ==
    IF busy THEN [st |-> st, busy |-> busy, ret |-> FALSE]
    ELSE LET r == FsmClearFaults(st, inited, faults_to_clear)
         IN [st |-> r.st, busy |-> FALSE, ret |-> r.ret]

\* ------------------------------------------------- inputs of the operations

\* next_state arguments: the six enumerators and one value outside the enum
StateArgs ==
    { SAFETY_STATE_INIT, SAFETY_STATE_NORMAL, SAFETY_STATE_FAULT,
      SAFETY_STATE_SAFE_STATE, SAFETY_STATE_RECOVERY, SAFETY_STATE_INVALID, 0 }

\* faults_to_clear arguments: every subset of the three fault bits
MaskArgs == 0..7

Sources == {"pwr", "clk", "mem"}

\* an aggregation over st meets a DRB that fails value XOR complement = 0xFF
SeesCorruption(st) ==
    \/ ~VERIFY_STATE(st.current_state, st.current_state_cmp)
    \/ ~VERIFY_STATE(st.active_faults, st.active_faults_cmp)
    \/ ~FsmFlagsVerified(st)

\* the stepping of fault_count stays within the explored range
WithinBound(st) == st.fault_count <= MaxFaultCount

\* ------------------------------------------- operations in task context

fsm_init ==
    LET r == FsmInit(g_safety_status, g_fsm_initialized) IN
    /\ g_safety_status' = r.st
    /\ g_fsm_initialized' = r.inited
    /\ op' = "fsm_init" /\ arg' = 0 /\ ret' = r.ret
    /\ out' = NotWritten /\ prio' = NotWritten
    /\ UNCHANGED <<g_aggregator_busy, corruption_event>>
    /\ UNCHANGED not_fsm_vars

fsm_transition(next_state) ==
    LET r == FsmTransition(g_safety_status, g_fsm_initialized, next_state) IN
    /\ g_safety_status' = r.st
    /\ op' = "fsm_transition" /\ arg' = next_state /\ ret' = r.ret
    /\ out' = NotWritten /\ prio' = NotWritten
    /\ corruption_event' =
          (corruption_event \/ (g_fsm_initialized /\ ~r.ret))
    /\ UNCHANGED <<g_fsm_initialized, g_aggregator_busy>>
    /\ UNCHANGED not_fsm_vars

fsm_aggregate_faults ==
    LET r == FsmAggregateFaults(g_safety_status, g_fsm_initialized) IN
    /\ WithinBound(r.st)
    /\ g_safety_status' = r.st
    /\ op' = "fsm_aggregate_faults" /\ arg' = 0 /\ ret' = r.ret
    /\ out' = NotWritten /\ prio' = NotWritten
    /\ corruption_event' = (corruption_event \/ SeesCorruption(g_safety_status))
    /\ UNCHANGED <<g_fsm_initialized, g_aggregator_busy>>
    /\ UNCHANGED not_fsm_vars

fsm_clear_faults(faults_to_clear) ==
    LET r == FsmClearFaults(g_safety_status, g_fsm_initialized, faults_to_clear) IN
    /\ WithinBound(r.st)
    /\ g_safety_status' = r.st
    /\ op' = "fsm_clear_faults" /\ arg' = faults_to_clear /\ ret' = r.ret
    /\ out' = NotWritten /\ prio' = NotWritten
    /\ corruption_event' = (corruption_event \/ (~r.ret /\ SeesCorruption(r.st)))
    /\ UNCHANGED <<g_fsm_initialized, g_aggregator_busy>>
    /\ UNCHANGED not_fsm_vars

fault_aggregate ==
    LET r == FaultAggregate(g_safety_status, g_fsm_initialized, g_aggregator_busy) IN
    /\ WithinBound(r.st)
    /\ g_safety_status' = r.st
    /\ g_aggregator_busy' = r.busy
    /\ op' = "fault_aggregate" /\ arg' = 0 /\ ret' = r.ret
    /\ out' = r.out /\ prio' = NotWritten
    /\ corruption_event' = (corruption_event \/ SeesCorruption(g_safety_status))
    /\ UNCHANGED g_fsm_initialized
    /\ UNCHANGED not_fsm_vars

fault_aggregator_reset(faults_to_clear) ==
    LET r == FaultAggregatorReset(g_safety_status, g_fsm_initialized,
                                  g_aggregator_busy, faults_to_clear) IN
    /\ WithinBound(r.st)
    /\ g_safety_status' = r.st
    /\ g_aggregator_busy' = r.busy
    /\ op' = "fault_aggregator_reset" /\ arg' = faults_to_clear /\ ret' = r.ret
    /\ out' = NotWritten /\ prio' = NotWritten
    /\ corruption_event' = (corruption_event \/ (~r.ret /\ SeesCorruption(r.st)))
    /\ UNCHANGED g_fsm_initialized
    /\ UNCHANGED not_fsm_vars

fault_get_highest_priority ==
    LET r == FaultGetHighestPriority(g_safety_status) IN
    /\ op' = "fault_get_highest_priority" /\ arg' = 0
    /\ ret' = FsmGetStatus(g_safety_status)
    /\ out' = r.fault /\ prio' = r.priority
    /\ UNCHANGED <<g_safety_status, g_fsm_initialized, g_aggregator_busy,
                   corruption_event>>
    /\ UNCHANGED not_fsm_vars

\* ------------------------------------ writers outside the task context

\* the flag DRB of a source is stored: value 0xAA, complement 0x55, the dual
\* store (STRD R0, R1, [address]) that the comments of the handlers of
\* interrupt_handler.c describe.  The handlers as written do not hold it
\* (HalIsrStatus); this is the fault path storing the pair.
fault_set_priorities_StoresWhileBusy(vdd_priority, clk_priority, mem_priority) ==
    /\ op' = "fault_set_priorities"
    /\ arg' = 100 * vdd_priority + 10 * clk_priority + mem_priority
    /\ out' = NotWritten /\ prio' = NotWritten
    /\ IF \/ vdd_priority < 1 \/ vdd_priority > 3
          \/ clk_priority < 1 \/ clk_priority > 3
          \/ mem_priority < 1 \/ mem_priority > 3
       THEN ret' = FALSE /\ UNCHANGED g_fault_priorities
       ELSE IF g_aggregator_busy
       THEN /\ ret' = FALSE
            /\ g_fault_priorities' = [vdd_priority |-> vdd_priority,
                                      clk_priority |-> clk_priority,
                                      mem_priority |-> mem_priority]
       ELSE /\ ret' = TRUE
            /\ g_fault_priorities' = [vdd_priority |-> vdd_priority,
                                      clk_priority |-> clk_priority,
                                      mem_priority |-> mem_priority]
    /\ UNCHANGED <<g_safety_status, g_fsm_initialized, g_aggregator_busy,
                   corruption_event>>
    /\ UNCHANGED <<gate_vars, clk_vars, clk_isr_vars, ecc_vars, hal_vars, svc_vars,
                   stats_vars, power_vars, stats_call_vars>>

\* fault_set_priorities(vdd_priority, clk_priority, mem_priority); arg records
\* the three arguments as the decimal digits of one number
fault_set_priorities(vdd_priority, clk_priority, mem_priority) ==
    /\ op' = "fault_set_priorities"
    /\ arg' = 100 * vdd_priority + 10 * clk_priority + mem_priority
    /\ out' = NotWritten /\ prio' = NotWritten
    /\ IF \/ vdd_priority < 1 \/ vdd_priority > 3
          \/ clk_priority < 1 \/ clk_priority > 3
          \/ mem_priority < 1 \/ mem_priority > 3
       THEN ret' = FALSE /\ UNCHANGED g_fault_priorities
       ELSE IF g_aggregator_busy
       THEN ret' = FALSE /\ UNCHANGED g_fault_priorities
       ELSE /\ ret' = TRUE
            /\ g_fault_priorities' = [vdd_priority |-> vdd_priority,
                                      clk_priority |-> clk_priority,
                                      mem_priority |-> mem_priority]
    /\ UNCHANGED <<g_safety_status, g_fsm_initialized, g_aggregator_busy,
                   corruption_event>>
    /\ UNCHANGED <<gate_vars, clk_vars, clk_isr_vars, ecc_vars, hal_vars, svc_vars,
                   stats_vars, power_vars, stats_call_vars>>

flag_set(src) ==
    /\ g_safety_status' =
         CASE src = "pwr" -> [g_safety_status EXCEPT !.pwr_fault = 170, !.pwr_fault_cmp = 85]
           [] src = "clk" -> [g_safety_status EXCEPT !.clk_fault = 170, !.clk_fault_cmp = 85]
           [] src = "mem" -> [g_safety_status EXCEPT !.mem_fault = 170, !.mem_fault_cmp = 85]
    /\ op' = "flag_set" /\ arg' = 0 /\ ret' = TRUE
    /\ out' = NotWritten /\ prio' = NotWritten
    /\ UNCHANGED <<g_fsm_initialized, g_aggregator_busy, corruption_event>>
    /\ UNCHANGED not_fsm_vars

\* a memory fault forces a flag's complement equal to its value
flag_corrupt(src) ==
    /\ g_safety_status' =
         CASE src = "pwr" -> [g_safety_status EXCEPT !.pwr_fault_cmp = g_safety_status.pwr_fault]
           [] src = "clk" -> [g_safety_status EXCEPT !.clk_fault_cmp = g_safety_status.clk_fault]
           [] src = "mem" -> [g_safety_status EXCEPT !.mem_fault_cmp = g_safety_status.mem_fault]
    /\ op' = "flag_corrupt" /\ arg' = 0 /\ ret' = TRUE
    /\ out' = NotWritten /\ prio' = NotWritten
    /\ UNCHANGED <<g_fsm_initialized, g_aggregator_busy, corruption_event>>
    /\ UNCHANGED not_fsm_vars

\* --------------------------------------------------------- specification

vars == <<fsm_vars, gate_vars, clk_vars, clk_isr_vars, ecc_vars, hal_vars, svc_vars,
          stats_vars, power_vars, g_fault_priorities, stats_call_vars>>

Callers == {"task", "other"}

\* the static initializers of safety_fsm.c and fault_aggregator.c
InitFsm ==
    /\ g_safety_status = InitialStatus
    /\ g_fsm_initialized = FALSE
    /\ g_aggregator_busy = FALSE
    /\ g_fault_priorities = [vdd_priority |-> 1, clk_priority |-> 2, mem_priority |-> 3]
    /\ op = "boot" /\ arg = 0 /\ ret = TRUE
    /\ out = NotWritten /\ prio = NotWritten
    /\ corruption_event = FALSE
    /\ gate_pc = [p \in Callers |-> "idle"]
    /\ gate_ret = [p \in Callers |-> "none"]
    /\ gate_out = [p \in Callers |-> NotWritten]

\* the static initializers of clk_event_handler.c and the state
\* ecc_handler_init() leaves, with the event counters at clk_count and
\* mem_count
InitHandlers(clk_count, mem_count) ==
    /\ clk_fault_flag = 0
    /\ clk_fault_flag_complement = 255
    /\ clk_fault_event_count = clk_count
    /\ clk_loss_timestamp = U32Zero
    /\ clk_isr_nesting_level = 0
    /\ task_pc = "idle"
    /\ fault_copy = 0 /\ complement_copy = 0
    /\ out_fault_detected = FALSE
    /\ task_ret = "none"
    /\ clk_isr_entries = 0
    /\ clk_count_start = clk_count
    /\ clk_isr_stack = <<>>
    /\ clk_nest_overflowed = FALSE
    /\ mem_fault_flag = 0
    /\ mem_fault_flag_complement = 255
    /\ mem_isr_nesting_count = 0
    /\ mem_fault_event_count = mem_count
    /\ mem_isr_entries = 0
    /\ mem_count_start = mem_count
    /\ ecc_op = "ecc_handler_init" /\ ecc_ret = TRUE

\* the static initializers of interrupt_handler.c, clk_monitor_service.c and
\* power_api.c
InitServices ==
    /\ g_power_module_initialized = FALSE
    /\ g_power_state = [ power_mode     |-> POWER_MODE_NORMAL,
                         power_mode_cmp |-> Not8(POWER_MODE_NORMAL),
                         vdd_voltage_mv |-> 3300,
                         status_flags   |-> POWER_STATUS_OK,
                         last_error     |-> 0 ]
    /\ POWER_MODE_REG = POWER_MODE_NORMAL
    /\ POWER_CONTROL_REG = 0
    /\ power_op = "boot" /\ power_ret = TRUE /\ power_out = NotWritten
    /\ g_isr_nesting_level = [src \in Sources |-> 0]
    /\ g_isr_call_counts = [src \in Sources |-> 0]
    /\ hal_isr_stack = <<>>
    /\ clk_service_state = 0
    /\ clk_recovery_timeout_counter = 0
    /\ clk_stability_counter = 0
    /\ clk_recovery_attempts = 0
    /\ svc_op = "boot" /\ svc_ret = "SAFETY_OK"
    /\ svc_arg = FALSE /\ svc_from = 0 /\ svc_hist = <<>> /\ svc_timed_out = FALSE

\* the static initializer of g_fault_stats
InitialStats ==
    [ detected           |-> [src \in Sources |-> U32Zero],
      undetected         |-> [src \in Sources |-> U32Zero],
      recovery_successes |-> U32Zero,
      recovery_failures  |-> U32Zero,
      uptime_ms          |-> [hi |-> U32Zero, lo |-> U32Zero] ]

\* fault_statistics.c with the record holding st
InitStats(st) ==
    /\ g_fault_stats = st
    /\ g_stats_locked = FALSE
    /\ stats_op = "boot" /\ stats_arg = 0 /\ stats_ret = TRUE
    /\ stats_out = NotWritten
    /\ stats_updates = 0
    /\ stats_pc = [c \in StatsContexts |-> "idle"]
    /\ stats_fn = [c \in StatsContexts |-> "none"]
    /\ stats_call_arg = [c \in StatsContexts |-> 0]
    /\ stats_call_ret = [c \in StatsContexts |-> "none"]
    /\ stats_snapshot = [c \in StatsContexts |-> << >>]
    /\ stats_seen = [c \in StatsContexts |-> {}]
    /\ stats_calls = 0

Init ==
    /\ InitFsm
    /\ InitHandlers(U32Zero, U32Zero)
    /\ InitServices
    /\ InitStats(InitialStats)

Next ==
    \/ fsm_init
    \/ \E n \in StateArgs : fsm_transition(n)
    \/ fsm_aggregate_faults
    \/ \E m \in MaskArgs : fsm_clear_faults(m)
    \/ fault_aggregate
    \/ \E m \in MaskArgs : fault_aggregator_reset(m)
    \/ fault_get_highest_priority
    \/ \E s \in Sources : flag_set(s)

\* task-context calls and flag assertions; every DRB stays valid
Spec == Init /\ [][Next]_vars

\* the aggregator with its priority configuration, every triple of 1..3
NextPriorities ==
    \/ \E vdd_priority, clk_priority, mem_priority \in 1..3 :
          fault_set_priorities(vdd_priority, clk_priority, mem_priority)
    \/ fsm_init
    \/ \E s \in Sources : flag_set(s)
    \/ fault_aggregate
    \/ fault_get_highest_priority

SpecPriorities == Init /\ [][NextPriorities]_vars

NextCorrupt ==
    \/ Next
    \/ \E s \in Sources : flag_corrupt(s)

\* the same, with memory faults hitting the flag DRBs
SpecCorrupt == Init /\ [][NextCorrupt]_vars

\* a memory fault forces the complement of the state equal to the state
state_corrupt ==
    /\ g_safety_status' =
         [g_safety_status EXCEPT !.current_state_cmp = g_safety_status.current_state]
    /\ op' = "state_corrupt" /\ arg' = 0 /\ ret' = TRUE
    /\ out' = NotWritten /\ prio' = NotWritten
    /\ UNCHANGED <<g_fsm_initialized, g_aggregator_busy, corruption_event>>
    /\ UNCHANGED not_fsm_vars

NextStateCorrupt ==
    \/ Next
    \/ state_corrupt

\* the task-context calls, with memory faults hitting the state DRB
SpecStateCorrupt == Init /\ [][NextStateCorrupt]_vars

\* --------------------- fault_aggregator.c, one statement of a call per step

\* fault_aggregate: `if (g_aggregator_busy) return false;`
aggregate_enter(p) ==
    /\ gate_pc[p] = "idle"
    /\ IF g_aggregator_busy
       THEN /\ gate_ret' = [gate_ret EXCEPT ![p] = "false"]
            /\ UNCHANGED gate_pc
       ELSE /\ gate_pc' = [gate_pc EXCEPT ![p] = "agg_set"]
            /\ gate_ret' = [gate_ret EXCEPT ![p] = "none"]
    /\ gate_out' = [gate_out EXCEPT ![p] = NotWritten]
    /\ UNCHANGED <<fsm_vars, not_gate_vars>>

\* fault_aggregate: `g_aggregator_busy = true;`
aggregate_set(p) ==
    /\ gate_pc[p] = "agg_set"
    /\ g_aggregator_busy' = TRUE
    /\ gate_pc' = [gate_pc EXCEPT ![p] = "agg_status"]
    /\ UNCHANGED <<g_safety_status, g_fsm_initialized, op, arg, ret, out, prio,
                   corruption_event, gate_ret, gate_out, not_gate_vars>>

\* fault_aggregate: fsm_get_status, the flag checks on the copy, *aggregated_faults
aggregate_status(p) ==
    /\ gate_pc[p] = "agg_status"
    /\ IF FsmGetStatus(g_safety_status) /\ AggregatorFlagsVerified(g_safety_status)
       THEN /\ gate_out' = [gate_out EXCEPT ![p] =
                               HighestPriorityFault(AggregatorResult(g_safety_status))]
            /\ gate_pc' = [gate_pc EXCEPT ![p] = "agg_fsm"]
       ELSE /\ gate_pc' = [gate_pc EXCEPT ![p] = "release_fail"]
            /\ UNCHANGED gate_out
    /\ UNCHANGED <<gate_ret, fsm_vars, not_gate_vars>>

\* fault_aggregate: `if (!fsm_aggregate_faults())`
aggregate_fsm(p) ==
    LET r == FsmAggregateFaults(g_safety_status, g_fsm_initialized) IN
    /\ gate_pc[p] = "agg_fsm"
    /\ WithinBound(r.st)
    /\ g_safety_status' = r.st
    /\ gate_pc' = [gate_pc EXCEPT ![p] = IF r.ret THEN "release_ok" ELSE "release_fail"]
    /\ UNCHANGED <<g_fsm_initialized, g_aggregator_busy, op, arg, ret, out, prio,
                   corruption_event, gate_ret, gate_out, not_gate_vars>>

\* fault_aggregator_reset: `if (g_aggregator_busy) return false;`
reset_enter(p) ==
    /\ gate_pc[p] = "idle"
    /\ IF g_aggregator_busy
       THEN /\ gate_ret' = [gate_ret EXCEPT ![p] = "false"]
            /\ UNCHANGED gate_pc
       ELSE /\ gate_pc' = [gate_pc EXCEPT ![p] = "reset_set"]
            /\ gate_ret' = [gate_ret EXCEPT ![p] = "none"]
    /\ UNCHANGED <<gate_out, fsm_vars, not_gate_vars>>

\* fault_aggregator_reset: `g_aggregator_busy = true;`
reset_set(p) ==
    /\ gate_pc[p] = "reset_set"
    /\ g_aggregator_busy' = TRUE
    /\ gate_pc' = [gate_pc EXCEPT ![p] = "reset_clear"]
    /\ UNCHANGED <<g_safety_status, g_fsm_initialized, op, arg, ret, out, prio,
                   corruption_event, gate_ret, gate_out, not_gate_vars>>

\* fault_aggregator_reset: `if (!fsm_clear_faults(faults_to_clear))`; the
\* argument is private to the caller until this statement, so it is drawn here
reset_clear(p, faults_to_clear) ==
    LET r == FsmClearFaults(g_safety_status, g_fsm_initialized, faults_to_clear) IN
    /\ gate_pc[p] = "reset_clear"
    /\ WithinBound(r.st)
    /\ g_safety_status' = r.st
    /\ gate_pc' = [gate_pc EXCEPT ![p] = IF r.ret THEN "release_ok" ELSE "release_fail"]
    /\ UNCHANGED <<g_fsm_initialized, g_aggregator_busy, op, arg, ret, out, prio,
                   corruption_event, gate_ret, gate_out, not_gate_vars>>

\* either function: `g_aggregator_busy = false; return ...;`
gate_release(p) ==
    /\ gate_pc[p] \in {"release_ok", "release_fail"}
    /\ g_aggregator_busy' = FALSE
    /\ gate_ret' = [gate_ret EXCEPT ![p] =
                       IF gate_pc[p] = "release_ok" THEN "true" ELSE "false"]
    /\ gate_pc' = [gate_pc EXCEPT ![p] = "idle"]
    /\ UNCHANGED <<g_safety_status, g_fsm_initialized, op, arg, ret, out, prio,
                   corruption_event, gate_out, not_gate_vars>>

\* caller p is past `g_aggregator_busy = true` and before `g_aggregator_busy = false`
InGate(p) ==
    gate_pc[p] \in {"agg_status", "agg_fsm", "reset_clear", "release_ok", "release_fail"}

NextGate ==
    \/ fsm_init
    \/ \E s \in Sources : flag_set(s)
    \/ \E p \in Callers : aggregate_enter(p)
    \/ \E p \in Callers : aggregate_set(p)
    \/ \E p \in Callers : aggregate_status(p)
    \/ \E p \in Callers : aggregate_fsm(p)
    \/ \E p \in Callers : reset_enter(p)
    \/ \E p \in Callers : reset_set(p)
    \/ \E p \in Callers : \E m \in MaskArgs : reset_clear(p, m)
    \/ \E p \in Callers : gate_release(p)

\* two callers scheduled at statement granularity, in any order
SpecGate == Init /\ [][NextGate]_vars

\* caller "other" preempts caller "task" and runs to completion before the
\* task resumes (strictly nested preemption on one core)
NextGateNested ==
    /\ NextGate
    /\ (gate_pc'["task"] # gate_pc["task"] \/ gate_ret'["task"] # gate_ret["task"])
          => gate_pc["other"] = "idle"

SpecGateNested == Init /\ [][NextGateNested]_vars

\* ---------------------------------------------------- clk_event_handler.c

CLK_ISR_MAX_NESTING == 8

\* `if (clk_fault_event_count < 0xFFFFFFFFU) clk_fault_event_count++;` without
\* the guard
ClkEventCountStep_Wraps(count) == U32Inc(count)

\* `if (clk_fault_event_count < 0xFFFFFFFFU) clk_fault_event_count++;`
ClkEventCountStep(count) ==
    IF count # U32Max THEN U32Inc(count) ELSE count

\* clk_event_handler_clk_loss_isr() run from entry to return on the statics
\* h = [flag, complement, count, timestamp, nesting]
ClkLossIsr(h) ==
    LET nesting == (h.nesting + 1) % 256 IN
    IF nesting > CLK_ISR_MAX_NESTING
    THEN [h EXCEPT !.flag = 255, !.complement = 255, !.nesting = CLK_ISR_MAX_NESTING]
    ELSE LET count == ClkEventCountStep(h.count)
         IN [ flag       |-> 1,
              complement |-> Not8(1),
              count      |-> count,
              timestamp  |-> count,
              nesting    |-> nesting - 1 ]

\* the interrupt preempts the task between two of its statements and returns
\* before the task resumes
clk_event_handler_clk_loss_isr ==
    LET h == ClkLossIsr([ flag       |-> clk_fault_flag,
                          complement |-> clk_fault_flag_complement,
                          count      |-> clk_fault_event_count,
                          timestamp  |-> clk_loss_timestamp,
                          nesting    |-> clk_isr_nesting_level ]) IN
    /\ clk_isr_entries < MaxClkEvents
    /\ clk_isr_entries' = clk_isr_entries + 1
    /\ clk_fault_flag' = h.flag
    /\ clk_fault_flag_complement' = h.complement
    /\ clk_fault_event_count' = h.count
    /\ clk_loss_timestamp' = h.timestamp
    /\ clk_isr_nesting_level' = h.nesting
    /\ UNCHANGED <<task_pc, fault_copy, complement_copy, out_fault_detected,
                   task_ret, clk_count_start, clk_isr_stack, clk_nest_overflowed,
                   not_clk_handler_vars>>

\* clk_event_handler_get_fault_flag: `fault_copy = clk_fault_flag;`
get_fault_flag_read_flag ==
    /\ task_pc = "idle"
    /\ fault_copy' = clk_fault_flag
    /\ task_pc' = "get_read_complement"
    /\ task_ret' = "none"
    /\ UNCHANGED <<clk_fault_flag, clk_fault_flag_complement, clk_fault_event_count,
                   clk_loss_timestamp, clk_isr_nesting_level,
                   complement_copy, out_fault_detected, not_clk_vars>>

\* clk_event_handler_get_fault_flag: `complement_copy = clk_fault_flag_complement;`
get_fault_flag_read_complement ==
    /\ task_pc = "get_read_complement"
    /\ complement_copy' = clk_fault_flag_complement
    /\ task_pc' = "get_check"
    /\ UNCHANGED <<clk_fault_flag, clk_fault_flag_complement, clk_fault_event_count,
                   clk_loss_timestamp, clk_isr_nesting_level,
                   fault_copy, out_fault_detected, task_ret, not_clk_vars>>

\* clk_event_handler_get_fault_flag: the DCLS check and the return
get_fault_flag_check ==
    /\ task_pc = "get_check"
    /\ IF BitXor(fault_copy, complement_copy) # 255
       THEN /\ out_fault_detected' = FALSE
            /\ task_ret' = "SAFETY_DCLS_ERROR"
       ELSE /\ out_fault_detected' = (fault_copy # 0)
            /\ task_ret' = "SAFETY_OK"
    /\ task_pc' = "idle"
    /\ UNCHANGED <<clk_fault_flag, clk_fault_flag_complement, clk_fault_event_count,
                   clk_loss_timestamp, clk_isr_nesting_level,
                   fault_copy, complement_copy, not_clk_vars>>

\* clk_event_handler_clear_fault: `clk_fault_flag = CLK_FAULT_FLAG_NOMINAL;`
clear_fault_write_flag ==
    /\ task_pc = "idle"
    /\ clk_fault_flag' = 0
    /\ task_pc' = "clear_write_complement"
    /\ task_ret' = "none"
    /\ UNCHANGED <<clk_fault_flag_complement, clk_fault_event_count,
                   clk_loss_timestamp, clk_isr_nesting_level,
                   fault_copy, complement_copy, out_fault_detected, not_clk_vars>>

\* clk_event_handler_clear_fault: `clk_fault_flag_complement = 0xFF;`
clear_fault_write_complement ==
    /\ task_pc = "clear_write_complement"
    /\ clk_fault_flag_complement' = 255
    /\ task_pc' = "clear_verify"
    /\ UNCHANGED <<clk_fault_flag, clk_fault_event_count,
                   clk_loss_timestamp, clk_isr_nesting_level,
                   fault_copy, complement_copy, out_fault_detected, task_ret,
                   not_clk_vars>>

\* clk_event_handler_clear_fault: the verification and the return
clear_fault_verify ==
    /\ task_pc = "clear_verify"
    /\ task_ret' = IF BitXor(clk_fault_flag, clk_fault_flag_complement) # 255
                   THEN "SAFETY_ERROR" ELSE "SAFETY_OK"
    /\ task_pc' = "idle"
    /\ UNCHANGED <<clk_fault_flag, clk_fault_flag_complement, clk_fault_event_count,
                   clk_loss_timestamp, clk_isr_nesting_level,
                   fault_copy, complement_copy, out_fault_detected, not_clk_vars>>

NextClk ==
    \/ clk_event_handler_clk_loss_isr
    \/ get_fault_flag_read_flag
    \/ get_fault_flag_read_complement
    \/ get_fault_flag_check
    \/ clear_fault_write_flag
    \/ clear_fault_write_complement
    \/ clear_fault_verify

\* the clock handler: a task-context caller and the clock-loss interrupt
SpecClk == Init /\ [][NextClk]_vars

\* ---------------------------------------------------------- ecc_handler.c

ECC_ISR_NESTING_MAX == 8

\* `mem_fault_event_count++; if (mem_fault_event_count == 0) ... = 0xFFFFFFFF;`
MemEventCountStep(count) ==
    LET next == U32Inc(count) IN
    IF next = U32Zero THEN U32Max ELSE next

\* ecc_fault_isr() run from entry to return on
\* m = [flag, complement, nesting, count]
EccFaultIsr(m) ==
    IF m.nesting >= ECC_ISR_NESTING_MAX
    THEN [m EXCEPT !.flag = 255, !.complement = 0]
    ELSE [ flag       |-> 1,
           complement |-> 254,
           nesting    |-> (((m.nesting + 1) % 256) + 255) % 256,
           count      |-> MemEventCountStep(m.count) ]

\* ecc_fault_is_active() on the pair (flag, complement)
EccFaultIsActive(flag, complement) ==
    IF BitXor(flag, complement) # 255 THEN FALSE ELSE flag # 0

\* the ECC interrupt, taken between two task-context calls
ecc_fault_isr ==
    LET m == EccFaultIsr([ flag       |-> mem_fault_flag,
                           complement |-> mem_fault_flag_complement,
                           nesting    |-> mem_isr_nesting_count,
                           count      |-> mem_fault_event_count ]) IN
    /\ mem_isr_entries < MaxClkEvents
    /\ mem_isr_entries' = mem_isr_entries + 1
    /\ mem_fault_flag' = m.flag
    /\ mem_fault_flag_complement' = m.complement
    /\ mem_isr_nesting_count' = m.nesting
    /\ mem_fault_event_count' = m.count
    /\ ecc_op' = "ecc_fault_isr" /\ ecc_ret' = TRUE
    /\ UNCHANGED <<mem_count_start, not_ecc_vars>>

ecc_fault_is_active ==
    /\ ecc_op' = "ecc_fault_is_active"
    /\ ecc_ret' = EccFaultIsActive(mem_fault_flag, mem_fault_flag_complement)
    /\ UNCHANGED <<mem_fault_flag, mem_fault_flag_complement, mem_isr_nesting_count,
                   mem_fault_event_count, mem_isr_entries, mem_count_start,
                   not_ecc_vars>>

ecc_fault_clear ==
    /\ ecc_op' = "ecc_fault_clear"
    /\ IF ~EccFaultIsActive(mem_fault_flag, mem_fault_flag_complement)
       THEN /\ ecc_ret' = FALSE
            /\ UNCHANGED <<mem_fault_flag, mem_fault_flag_complement>>
       ELSE /\ mem_fault_flag' = 0
            /\ mem_fault_flag_complement' = 255
            /\ ecc_ret' = (BitXor(0, 255) = 255)
    /\ UNCHANGED <<mem_isr_nesting_count, mem_fault_event_count, mem_isr_entries,
                   mem_count_start, not_ecc_vars>>

\* a memory fault forces the complement byte of the clock flag equal to its value
clk_flag_corrupt ==
    /\ task_pc = "idle"
    /\ clk_fault_flag_complement' = clk_fault_flag
    /\ UNCHANGED <<clk_fault_flag, clk_fault_event_count, clk_loss_timestamp,
                   clk_isr_nesting_level, task_pc, fault_copy, complement_copy,
                   out_fault_detected, task_ret, not_clk_vars>>

\* a memory fault forces the complement byte of the ECC flag equal to its value
mem_flag_corrupt ==
    /\ mem_fault_flag_complement' = mem_fault_flag
    /\ ecc_op' = "mem_flag_corrupt" /\ ecc_ret' = TRUE
    /\ UNCHANGED <<mem_fault_flag, mem_isr_nesting_count, mem_fault_event_count,
                   mem_isr_entries, mem_count_start,
                   not_ecc_vars>>

\* event counter values a run starts from: zero (after init) and two events
\* short of saturation (after a long run)
StartCounts == { U32Zero, U32(65535, 65533) }

InitLongRun ==
    /\ InitFsm
    /\ \E c \in StartCounts, m \in StartCounts : InitHandlers(c, m)
    /\ InitServices
    /\ InitStats(InitialStats)

NextHandlers ==
    \/ NextClk
    \/ ecc_fault_isr
    \/ ecc_fault_is_active
    \/ ecc_fault_clear

\* the clock and ECC handlers: task-context calls and non-nested interrupts
SpecHandlers == InitLongRun /\ [][NextHandlers]_vars

NextHandlersCorrupt ==
    \/ NextHandlers
    \/ clk_flag_corrupt
    \/ mem_flag_corrupt

\* the same, with memory faults hitting the handlers' flag pairs
SpecHandlersCorrupt == InitLongRun /\ [][NextHandlersCorrupt]_vars

\* ------------- clk_event_handler.c, nested entries of the clock-loss ISR

\* The function masks no interrupt, so an entry can be preempted by a further
\* entry between two of its statements; the preempting entry returns before
\* the preempted one resumes.  clk_isr_stack holds the position of every
\* entry in progress, innermost last:
\*   "check"   after `clk_isr_nesting_level++`
\*   "assert"  after the nesting test, before the flag stores
\*   "exit"    after the flag stores, before the counter, timestamp and
\*             `clk_isr_nesting_level--`
TopPc(stack) == stack[Len(stack)]

Pop(stack) == SubSeq(stack, 1, Len(stack) - 1)

SetTop(stack, pc) == [stack EXCEPT ![Len(stack)] = pc]

\* `clk_isr_nesting_level++;`
clk_isr_enter ==
    /\ task_pc = "idle"
    /\ clk_isr_entries < MaxNestEntries
    /\ clk_isr_entries' = clk_isr_entries + 1
    /\ clk_isr_nesting_level' = (clk_isr_nesting_level + 1) % 256
    /\ clk_isr_stack' = Append(clk_isr_stack, "check")
    /\ clk_nest_overflowed' = (clk_isr_stack # <<>> /\ clk_nest_overflowed)
    /\ UNCHANGED <<clk_fault_flag, clk_fault_flag_complement, clk_fault_event_count,
                   clk_loss_timestamp, task_pc, fault_copy, complement_copy,
                   out_fault_detected, task_ret, clk_count_start,
                   not_clk_handler_vars>>

\* `if (clk_isr_nesting_level > CLK_ISR_MAX_NESTING) { ...; return; }`
clk_isr_check ==
    /\ clk_isr_stack # <<>> /\ TopPc(clk_isr_stack) = "check"
    /\ IF clk_isr_nesting_level > CLK_ISR_MAX_NESTING
       THEN /\ clk_fault_flag' = 255
            /\ clk_fault_flag_complement' = 255
            /\ clk_isr_nesting_level' = CLK_ISR_MAX_NESTING
            /\ clk_isr_stack' = Pop(clk_isr_stack)
            /\ clk_nest_overflowed' = TRUE
       ELSE /\ clk_isr_stack' = SetTop(clk_isr_stack, "assert")
            /\ UNCHANGED <<clk_fault_flag, clk_fault_flag_complement,
                           clk_isr_nesting_level, clk_nest_overflowed>>
    /\ UNCHANGED <<clk_fault_event_count, clk_loss_timestamp, task_pc, fault_copy,
                   complement_copy, out_fault_detected, task_ret, clk_isr_entries,
                   clk_count_start, not_clk_handler_vars>>

\* `clk_fault_flag = 0x01U; clk_fault_flag_complement = ~clk_fault_flag;`
clk_isr_assert ==
    /\ clk_isr_stack # <<>> /\ TopPc(clk_isr_stack) = "assert"
    /\ clk_fault_flag' = 1
    /\ clk_fault_flag_complement' = Not8(1)
    /\ clk_isr_stack' = SetTop(clk_isr_stack, "exit")
    /\ UNCHANGED <<clk_fault_event_count, clk_loss_timestamp, clk_isr_nesting_level,
                   task_pc, fault_copy, complement_copy, out_fault_detected,
                   task_ret, clk_isr_entries, clk_count_start, clk_nest_overflowed,
                   not_clk_handler_vars>>

\* the counter step, `clk_loss_timestamp = clk_fault_event_count;`,
\* `clk_isr_nesting_level--;` and the return
clk_isr_exit ==
    LET count == ClkEventCountStep(clk_fault_event_count) IN
    /\ clk_isr_stack # <<>> /\ TopPc(clk_isr_stack) = "exit"
    /\ clk_fault_event_count' = count
    /\ clk_loss_timestamp' = count
    /\ clk_isr_nesting_level' = (clk_isr_nesting_level + 255) % 256
    /\ clk_isr_stack' = Pop(clk_isr_stack)
    /\ UNCHANGED <<clk_fault_flag, clk_fault_flag_complement, task_pc, fault_copy,
                   complement_copy, out_fault_detected, task_ret, clk_isr_entries,
                   clk_count_start, clk_nest_overflowed, not_clk_handler_vars>>

NextClkNest ==
    \/ clk_isr_enter
    \/ clk_isr_check
    \/ clk_isr_assert
    \/ clk_isr_exit

\* nests of clock-loss interrupts of any shape, statement by statement
SpecClkNest == Init /\ [][NextClkNest]_vars

\* ---------------------------------------------------- interrupt_handler.c

\* the entry point of each fault source
HalHandler == [pwr |-> "vdd_isr_handler", clk |-> "clk_isr_handler",
               mem |-> "mem_isr_handler"]

\* the effect of a handler body on g_safety_status, with the store its
\* comment describes and the aggregation of that flag done in the handler
HalIsrStatus_Aggregates(st, src) ==
    [st EXCEPT !.active_faults = BitOr(st.active_faults, FAULT_TYPE_VDD),
               !.active_faults_cmp = Not8(BitOr(st.active_faults, FAULT_TYPE_VDD))]

\* the effect of a handler body on g_safety_status: the inline assembly loads
\* R0 and holds no store instruction, and g_safety_status is a static of
\* safety_fsm.c
HalIsrStatus(st, src) == st

\* `g_isr_nesting_level[i]++; if (g_isr_nesting_level[i] > 2) { while (1) { } }`
HalNestingEnter(level) == (level + 1) % 256

HalHalts(level) == level > 2

\* a handler taken between two task-context calls, from entry to return.
\* arg records whether the entry directly follows a successful fsm_init().
hal_isr_handler(src) ==
    LET level == HalNestingEnter(g_isr_nesting_level[src]) IN
    /\ hal_isr_stack = <<>>
    /\ g_isr_call_counts[src] < MaxHalCalls
    /\ ~HalHalts(level)
    /\ g_safety_status' = HalIsrStatus(g_safety_status, src)
    /\ g_isr_call_counts' = [g_isr_call_counts EXCEPT ![src] = @ + 1]
    /\ g_isr_nesting_level' = [g_isr_nesting_level EXCEPT ![src] = (level + 255) % 256]
    /\ op' = HalHandler[src]
    /\ arg' = IF op = "fsm_init" /\ ret = TRUE THEN 1 ELSE 0
    /\ ret' = TRUE /\ out' = NotWritten /\ prio' = NotWritten
    /\ UNCHANGED <<g_fsm_initialized, g_aggregator_busy, corruption_event,
                   hal_isr_stack, not_hal_vars>>

\* -------------- interrupt_handler.c, nested entries of the three handlers

\* entries taken so far: the completed calls and the entries in progress
HalEntries ==
    g_isr_call_counts["pwr"] + g_isr_call_counts["clk"] + g_isr_call_counts["mem"]
        + Len(hal_isr_stack)

\* `g_isr_nesting_level[i]++;` of an entry that preempts whatever runs
hal_isr_enter(src) ==
    /\ HalEntries < MaxHalEntries
    /\ g_isr_nesting_level' =
           [g_isr_nesting_level EXCEPT ![src] = HalNestingEnter(@)]
    /\ hal_isr_stack' = Append(hal_isr_stack, [src |-> src, pc |-> "check"])
    /\ UNCHANGED <<g_isr_call_counts, fsm_vars, not_hal_vars>>

\* `if (g_isr_nesting_level[i] > 2) { while (1) { } }`: the entry either
\* stays in the empty loop or goes on to the body
hal_isr_check ==
    /\ hal_isr_stack # <<>> /\ TopPc(hal_isr_stack).pc = "check"
    /\ LET f == TopPc(hal_isr_stack) IN
       hal_isr_stack' =
           SetTop(hal_isr_stack,
                  [f EXCEPT !.pc = IF HalHalts(g_isr_nesting_level[f.src])
                                   THEN "halt" ELSE "body"])
    /\ UNCHANGED <<g_isr_nesting_level, g_isr_call_counts, fsm_vars, not_hal_vars>>

\* the body: the register load, `g_isr_call_counts[i]++;`, the timestamp,
\* `g_isr_nesting_level[i]--;` and the return
hal_isr_return ==
    /\ hal_isr_stack # <<>> /\ TopPc(hal_isr_stack).pc = "body"
    /\ LET src == TopPc(hal_isr_stack).src IN
       /\ g_isr_call_counts' = [g_isr_call_counts EXCEPT ![src] = @ + 1]
       /\ g_isr_nesting_level' =
              [g_isr_nesting_level EXCEPT ![src] = (@ + 255) % 256]
       /\ g_safety_status' = HalIsrStatus(g_safety_status, src)
    /\ hal_isr_stack' = Pop(hal_isr_stack)
    /\ UNCHANGED <<g_fsm_initialized, g_aggregator_busy, op, arg, ret, out, prio,
                   corruption_event, not_hal_vars>>

NextHalNest ==
    \/ \E s \in Sources : hal_isr_enter(s)
    \/ hal_isr_check
    \/ hal_isr_return

\* nests of fault interrupts of the three sources, statement by statement
SpecHalNest == Init /\ [][NextHalNest]_vars

\* ------------------------------------------------- clk_monitor_service.c

CLK_SERVICE_STATE_IDLE == 0
CLK_SERVICE_STATE_FAULT_ACTIVE == 1
CLK_SERVICE_STATE_RECOVERY_PENDING == 2
CLK_SERVICE_STATE_RECOVERY_CONFIRMED == 3

\* clk_service_config
recovery_timeout_ticks == 10
stability_check_duration == 5

\* clk_service_handle_fault() on r = [state, timeout, stability, attempts]
ClkServiceHandleFault(r) ==
    IF r.state # CLK_SERVICE_STATE_IDLE
    THEN [r |-> r, ret |-> "SAFETY_OK"]
    ELSE [r |-> [ state     |-> CLK_SERVICE_STATE_FAULT_ACTIVE,
                  timeout   |-> 0,
                  stability |-> 0,
                  attempts  |-> r.attempts + 1 ],
          ret |-> "SAFETY_OK"]

\* clk_service_request_recovery() with the consumed recovery clearing the
\* counters and an unknown state reported as pending
ClkServiceRequestRecovery_ClearsCounters(r) ==
    CASE r.state = CLK_SERVICE_STATE_IDLE ->
           [r |-> r, ret |-> "SAFETY_OK"]
      [] r.state = CLK_SERVICE_STATE_RECOVERY_CONFIRMED ->
           [r |-> [r EXCEPT !.state = CLK_SERVICE_STATE_IDLE,
                            !.timeout = 0, !.stability = 0],
            ret |-> "SAFETY_OK"]
      [] OTHER ->
           [r |-> r, ret |-> "SAFETY_PENDING"]

\* clk_service_request_recovery()
ClkServiceRequestRecovery(r) ==
    CASE r.state = CLK_SERVICE_STATE_IDLE ->
           [r |-> r, ret |-> "SAFETY_OK"]
      [] r.state = CLK_SERVICE_STATE_RECOVERY_CONFIRMED ->
           [r |-> [r EXCEPT !.state = CLK_SERVICE_STATE_IDLE], ret |-> "SAFETY_OK"]
      [] r.state \in {CLK_SERVICE_STATE_RECOVERY_PENDING,
                      CLK_SERVICE_STATE_FAULT_ACTIVE} ->
           [r |-> r, ret |-> "SAFETY_PENDING"]
      [] OTHER ->
           [r |-> r, ret |-> "SAFETY_ERROR"]

\* the FAULT_ACTIVE case with the deassertion tested before the timeout
ClkServiceFaultActive_DeassertFirst(r, clk_fault_asserted) ==
    LET timeout == r.timeout + 1 IN
    IF ~clk_fault_asserted
    THEN [r EXCEPT !.state = CLK_SERVICE_STATE_RECOVERY_PENDING,
                   !.timeout = timeout, !.stability = 0]
    ELSE IF timeout >= recovery_timeout_ticks
         THEN [r EXCEPT !.state = CLK_SERVICE_STATE_IDLE, !.timeout = 0]
         ELSE [r EXCEPT !.timeout = timeout]

\* the FAULT_ACTIVE case of clk_service_task() with the timeout leading to
\* RECOVERY_CONFIRMED
ClkServiceFaultActive_TimeoutConfirms(r, clk_fault_asserted) ==
    LET timeout == r.timeout + 1 IN
    IF timeout >= recovery_timeout_ticks
    THEN [r EXCEPT !.state = CLK_SERVICE_STATE_RECOVERY_CONFIRMED, !.timeout = 0]
    ELSE IF ~clk_fault_asserted
         THEN [r EXCEPT !.state = CLK_SERVICE_STATE_RECOVERY_PENDING,
                        !.timeout = timeout, !.stability = 0]
         ELSE [r EXCEPT !.timeout = timeout]

\* the FAULT_ACTIVE case of clk_service_task()
ClkServiceFaultActive(r, clk_fault_asserted) ==
    LET timeout == r.timeout + 1 IN
    IF timeout >= recovery_timeout_ticks
    THEN [r EXCEPT !.state = CLK_SERVICE_STATE_IDLE, !.timeout = 0]
    ELSE IF ~clk_fault_asserted
         THEN [r EXCEPT !.state = CLK_SERVICE_STATE_RECOVERY_PENDING,
                        !.timeout = timeout, !.stability = 0]
         ELSE [r EXCEPT !.timeout = timeout]

\* the RECOVERY_PENDING case confirming one tick late
ClkServiceRecoveryPending_ConfirmsLate(r, clk_fault_asserted) ==
    IF clk_fault_asserted
    THEN [r EXCEPT !.state = CLK_SERVICE_STATE_FAULT_ACTIVE,
                   !.timeout = 0, !.stability = 0]
    ELSE LET stability == r.stability + 1 IN
         IF stability > stability_check_duration
         THEN [r EXCEPT !.state = CLK_SERVICE_STATE_RECOVERY_CONFIRMED,
                        !.stability = stability]
         ELSE [r EXCEPT !.stability = stability]

\* the RECOVERY_PENDING case confirming on the first stable tick
ClkServiceRecoveryPending_ConfirmsAtOnce(r, clk_fault_asserted) ==
    IF clk_fault_asserted
    THEN [r EXCEPT !.state = CLK_SERVICE_STATE_FAULT_ACTIVE,
                   !.timeout = 0, !.stability = 0]
    ELSE [r EXCEPT !.state = CLK_SERVICE_STATE_RECOVERY_CONFIRMED,
                   !.stability = stability_check_duration]

\* the RECOVERY_PENDING case falling back with the timeout counter kept
ClkServiceRecoveryPending_KeepsTimeout(r, clk_fault_asserted) ==
    IF clk_fault_asserted
    THEN [r EXCEPT !.state = CLK_SERVICE_STATE_FAULT_ACTIVE, !.stability = 0]
    ELSE LET stability == r.stability + 1 IN
         IF stability >= stability_check_duration
         THEN [r EXCEPT !.state = CLK_SERVICE_STATE_RECOVERY_CONFIRMED,
                        !.stability = stability]
         ELSE [r EXCEPT !.stability = stability]

\* the RECOVERY_PENDING case of clk_service_task()
ClkServiceRecoveryPending(r, clk_fault_asserted) ==
    IF clk_fault_asserted
    THEN [r EXCEPT !.state = CLK_SERVICE_STATE_FAULT_ACTIVE,
                   !.timeout = 0, !.stability = 0]
    ELSE LET stability == r.stability + 1 IN
         IF stability >= stability_check_duration
         THEN [r EXCEPT !.state = CLK_SERVICE_STATE_RECOVERY_CONFIRMED,
                        !.stability = stability]
         ELSE [r EXCEPT !.stability = stability]

\* the switch of clk_service_task() for one value of clk_fault_asserted
ClkServiceTask(r, clk_fault_asserted) ==
    CASE r.state = CLK_SERVICE_STATE_IDLE ->
           IF clk_fault_asserted
           THEN [r EXCEPT !.state = CLK_SERVICE_STATE_FAULT_ACTIVE,
                          !.timeout = 0, !.stability = 0]
           ELSE r
      [] r.state = CLK_SERVICE_STATE_FAULT_ACTIVE ->
           ClkServiceFaultActive(r, clk_fault_asserted)
      [] r.state = CLK_SERVICE_STATE_RECOVERY_PENDING ->
           ClkServiceRecoveryPending(r, clk_fault_asserted)
      [] r.state = CLK_SERVICE_STATE_RECOVERY_CONFIRMED ->
           IF clk_fault_asserted
           THEN [r EXCEPT !.state = CLK_SERVICE_STATE_FAULT_ACTIVE,
                          !.timeout = 0, !.stability = 0]
           ELSE r
      [] OTHER ->
           [r EXCEPT !.state = CLK_SERVICE_STATE_IDLE]

\* the service record as one value
ServiceRecord ==
    [ state     |-> clk_service_state,
      timeout   |-> clk_recovery_timeout_counter,
      stability |-> clk_stability_counter,
      attempts  |-> clk_recovery_attempts ]

SetServiceRecord(r) ==
    /\ clk_service_state' = r.state
    /\ clk_recovery_timeout_counter' = r.timeout
    /\ clk_stability_counter' = r.stability
    /\ clk_recovery_attempts' = r.attempts

\* the samples kept in svc_hist: a full timeout followed by a full stability
\* window
HistCap == recovery_timeout_ticks + stability_check_duration

\* svc_hist after a step from state `from` to state `to` that sampled the
\* values of `sampled` (<<>> for a call that is not a tick)
HistAfter(from, to, sampled) ==
    IF to = CLK_SERVICE_STATE_IDLE
         \/ (to = CLK_SERVICE_STATE_FAULT_ACTIVE /\ from # CLK_SERVICE_STATE_FAULT_ACTIVE)
    THEN <<>>
    ELSE LET h == svc_hist \o sampled IN
         IF Len(h) > HistCap THEN Tail(h) ELSE h

clk_service_handle_fault ==
    LET c == ClkServiceHandleFault(ServiceRecord) IN
    /\ c.r.attempts <= MaxAttempts
    /\ SetServiceRecord(c.r)
    /\ svc_op' = "clk_service_handle_fault" /\ svc_ret' = c.ret
    /\ svc_arg' = FALSE /\ svc_from' = clk_service_state
    /\ svc_hist' = HistAfter(clk_service_state, c.r.state, <<>>)
    /\ svc_timed_out' = FALSE
    /\ UNCHANGED not_svc_vars

clk_service_request_recovery ==
    LET c == ClkServiceRequestRecovery(ServiceRecord) IN
    /\ SetServiceRecord(c.r)
    /\ svc_op' = "clk_service_request_recovery" /\ svc_ret' = c.ret
    /\ svc_arg' = FALSE /\ svc_from' = clk_service_state
    /\ svc_hist' = HistAfter(clk_service_state, c.r.state, <<>>)
    /\ UNCHANGED svc_timed_out
    /\ UNCHANGED not_svc_vars

\* one tick of the service task.  clk_fault_asserted is the hardware signal
\* the task samples; the placeholder that derives it from a tick counter
\* (asserted for the first 5 ticks) produces one of the sequences drawn here.
clk_service_task(clk_fault_asserted) ==
    LET r == ClkServiceTask(ServiceRecord, clk_fault_asserted) IN
    /\ SetServiceRecord(r)
    /\ svc_op' = "clk_service_task" /\ svc_ret' = "SAFETY_OK"
    /\ svc_arg' = clk_fault_asserted /\ svc_from' = clk_service_state
    /\ svc_hist' = HistAfter(clk_service_state, r.state, <<clk_fault_asserted>>)
    /\ svc_timed_out' =
           /\ clk_fault_asserted
           /\ r.state = CLK_SERVICE_STATE_IDLE
           /\ (clk_service_state = CLK_SERVICE_STATE_FAULT_ACTIVE \/ svc_timed_out)
    /\ UNCHANGED not_svc_vars

NextService ==
    \/ clk_service_handle_fault
    \/ clk_service_request_recovery
    \/ \E a \in BOOLEAN : clk_service_task(a)

\* the clock recovery service under task ticks and calls from the safety FSM
SpecService == Init /\ [][NextService]_vars

\* values of clk_service_state outside the enumeration
CorruptServiceStates == {4, 255}

\* a memory fault leaves clk_service_state with a value outside the four
\* enumerators
svc_state_corrupt(v) ==
    /\ clk_service_state \in 0..3
    /\ clk_service_state' = v
    /\ svc_op' = "svc_state_corrupt" /\ svc_ret' = "SAFETY_OK"
    /\ svc_arg' = FALSE /\ svc_from' = clk_service_state
    /\ svc_timed_out' = FALSE
    /\ UNCHANGED <<clk_recovery_timeout_counter, clk_stability_counter,
                   clk_recovery_attempts, svc_hist, not_svc_vars>>

NextServiceCorrupt ==
    \/ NextService
    \/ \E v \in CorruptServiceStates : svc_state_corrupt(v)

\* the same, with memory faults hitting the state of the service
SpecServiceCorrupt == Init /\ [][NextServiceCorrupt]_vars

\* ----------------------- interrupts of the three sources between task calls

NextSources ==
    \/ fsm_init
    \/ \E n \in StateArgs : fsm_transition(n)
    \/ fsm_aggregate_faults
    \/ fault_aggregate
    \/ \E s \in Sources : hal_isr_handler(s)
    \/ clk_event_handler_clk_loss_isr
    \/ ecc_fault_isr
    \/ clk_service_handle_fault
    \/ clk_service_request_recovery

\* every fault interrupt handler of the firmware, taken between the calls of
\* the safety task
SpecSources == Init /\ [][NextSources]_vars

\* ------------------------------------------------------------ power_api.c

\* power_init() with POWER_STATUS_REG reading status
PowerInit(inited, ps, status) ==
    IF inited THEN [inited |-> inited, ps |-> ps, ret |-> FALSE]
    ELSE IF BitAnd(status, POWER_STATUS_VDD_LOW) # 0
    THEN [inited |-> inited, ps |-> ps, ret |-> FALSE]
    ELSE [ inited |-> TRUE,
           ps |-> [ power_mode     |-> POWER_MODE_NORMAL,
                    power_mode_cmp |-> Not8(POWER_MODE_NORMAL),
                    vdd_voltage_mv |-> 3300,
                    status_flags   |-> POWER_STATUS_OK,
                    last_error     |-> 0 ],
           ret |-> TRUE ]

\* power_get_status(&mode, &voltage_mv): the value returned and *mode
PowerGetStatus(inited, ps) ==
    IF ~inited THEN [ret |-> FALSE, mode |-> NotWritten]
    ELSE IF BitXor(ps.power_mode, ps.power_mode_cmp) # 255
    THEN [ret |-> FALSE, mode |-> 255]
    ELSE [ret |-> TRUE, mode |-> ps.power_mode]

\* power_write_enabled()
PowerWriteEnabled(inited, ps) ==
    LET s == PowerGetStatus(inited, ps) IN
    s.ret /\ s.mode = POWER_MODE_NORMAL

power_init(status) ==
    LET r == PowerInit(g_power_module_initialized, g_power_state, status) IN
    /\ g_power_module_initialized' = r.inited
    /\ g_power_state' = r.ps
    /\ power_op' = "power_init" /\ power_ret' = r.ret /\ power_out' = NotWritten
    /\ UNCHANGED <<POWER_MODE_REG, POWER_CONTROL_REG, not_power_vars>>

\* power_reset(): the flag is cleared, then power_init() runs
power_reset(status) ==
    LET r == PowerInit(FALSE, g_power_state, status) IN
    /\ g_power_module_initialized' = r.inited
    /\ g_power_state' = r.ps
    /\ power_op' = "power_reset" /\ power_ret' = r.ret /\ power_out' = NotWritten
    /\ UNCHANGED <<POWER_MODE_REG, POWER_CONTROL_REG, not_power_vars>>

power_get_status ==
    LET s == PowerGetStatus(g_power_module_initialized, g_power_state) IN
    /\ power_op' = "power_get_status" /\ power_ret' = s.ret /\ power_out' = s.mode
    /\ UNCHANGED <<g_power_module_initialized, g_power_state, POWER_MODE_REG,
                   POWER_CONTROL_REG, not_power_vars>>

power_enter_safe_state ==
    /\ power_op' = "power_enter_safe_state" /\ power_out' = NotWritten
    /\ IF /\ g_power_module_initialized
          /\ BitXor(g_power_state.power_mode, g_power_state.power_mode_cmp) = 255
       THEN /\ g_power_state' = [g_power_state EXCEPT
                                    !.power_mode = POWER_MODE_SAFE_STATE,
                                    !.power_mode_cmp = Not8(POWER_MODE_SAFE_STATE)]
            /\ POWER_MODE_REG' = POWER_MODE_SAFE_STATE
            /\ power_ret' = TRUE
       ELSE /\ power_ret' = FALSE
            /\ UNCHANGED <<g_power_state, POWER_MODE_REG>>
    /\ UNCHANGED <<g_power_module_initialized, POWER_CONTROL_REG, not_power_vars>>

power_request_recovery_RestoresNormal ==
    LET s == PowerGetStatus(g_power_module_initialized, g_power_state) IN
    /\ power_op' = "power_request_recovery" /\ power_out' = NotWritten
    /\ IF s.ret /\ s.mode = POWER_MODE_SAFE_STATE
       THEN /\ POWER_CONTROL_REG' = BitOr(POWER_CONTROL_REG, 8)
            /\ g_power_state' = [g_power_state EXCEPT
                                    !.power_mode = POWER_MODE_NORMAL,
                                    !.power_mode_cmp = Not8(POWER_MODE_NORMAL)]
            /\ power_ret' = TRUE
       ELSE /\ power_ret' = FALSE
            /\ UNCHANGED <<POWER_CONTROL_REG, g_power_state>>
    /\ UNCHANGED <<g_power_module_initialized, POWER_MODE_REG, not_power_vars>>

power_request_recovery ==
    LET s == PowerGetStatus(g_power_module_initialized, g_power_state) IN
    /\ power_op' = "power_request_recovery" /\ power_out' = NotWritten
    /\ IF s.ret /\ s.mode = POWER_MODE_SAFE_STATE
       THEN /\ POWER_CONTROL_REG' = BitOr(POWER_CONTROL_REG, 8)
            /\ power_ret' = TRUE
       ELSE /\ power_ret' = FALSE
            /\ UNCHANGED POWER_CONTROL_REG
    /\ UNCHANGED <<g_power_module_initialized, g_power_state, POWER_MODE_REG,
                   not_power_vars>>

power_update_voltage(voltage_mv) ==
    /\ power_op' = "power_update_voltage" /\ power_out' = NotWritten
    /\ IF ~g_power_module_initialized
       THEN /\ power_ret' = FALSE
            /\ UNCHANGED g_power_state
       ELSE /\ power_ret' = TRUE
            /\ g_power_state' =
                 [g_power_state EXCEPT
                    !.vdd_voltage_mv = voltage_mv,
                    !.status_flags =
                        IF voltage_mv < 2700 THEN BitOr(@, POWER_STATUS_VDD_LOW)
                        ELSE IF voltage_mv >= 2900
                             THEN BitAnd(@, Not8(POWER_STATUS_VDD_LOW))
                             ELSE @]
    /\ UNCHANGED <<g_power_module_initialized, POWER_MODE_REG, POWER_CONTROL_REG,
                   not_power_vars>>

power_write_enabled ==
    /\ power_op' = "power_write_enabled"
    /\ power_ret' = PowerWriteEnabled(g_power_module_initialized, g_power_state)
    /\ power_out' = NotWritten
    /\ UNCHANGED <<g_power_module_initialized, g_power_state, POWER_MODE_REG,
                   POWER_CONTROL_REG, not_power_vars>>

\* the power API, with POWER_STATUS_REG reading OK or VDD_LOW and the voltage
\* below, inside and above the hysteresis band
NextPower ==
    \/ \E status \in {POWER_STATUS_OK, POWER_STATUS_VDD_LOW} : power_init(status)
    \/ \E status \in {POWER_STATUS_OK, POWER_STATUS_VDD_LOW} : power_reset(status)
    \/ power_get_status
    \/ power_enter_safe_state
    \/ power_request_recovery
    \/ \E voltage_mv \in {2600, 2800, 3300} : power_update_voltage(voltage_mv)
    \/ power_write_enabled

SpecPower == Init /\ [][NextPower]_vars

\* the power API next to the safety FSM and its aggregator tick
NextPowerTick ==
    \/ NextPower
    \/ fsm_init
    \/ fsm_transition(SAFETY_STATE_NORMAL)
    \/ \E s \in Sources : flag_set(s)
    \/ fault_aggregate

SpecPowerTick == Init /\ [][NextPowerTick]_vars

\* ---------------------------------------------------- fault_statistics.c

\* the source a fault_type_t argument selects in the switch statements
StatsSource(fault_type) ==
    CASE fault_type = FAULT_TYPE_VDD -> "pwr"
      [] fault_type = FAULT_TYPE_CLK -> "clk"
      [] fault_type = FAULT_TYPE_MEM_ECC -> "mem"
      [] OTHER -> "none"

\* fault_stats_calculate_dc(fault_type, &out) on the record st: `total =
\* detected + undetected` and `detected * 100` are uint32_t, the quotient is
\* cut to uint8_t and then clamped
FaultStatsCalculateDc(st, fault_type) ==
    LET src == StatsSource(fault_type) IN
    IF src = "none" THEN [ret |-> FALSE, out |-> NotWritten]
    ELSE LET detected == st.detected[src]
             total == U32Add(detected, st.undetected[src])
             dc == U32Div(U32MulSmall(detected, 100), total).lo % 256
         IN [ret |-> TRUE,
             out |-> IF total = U32Zero THEN 0 ELSE IF dc > 100 THEN 100 ELSE dc]

\* fault_stats_get_total_faults(): the uint32_t sum of the three counters
FaultStatsGetTotalFaults(st) ==
    U32Add(U32Add(st.detected["pwr"], st.detected["clk"]), st.detected["mem"])

\* fault_stats_get_fault_rate_per_hour(&fph) on the record st.  uptime_ms is
\* a uint64_t, [hi, lo] of two uint32_t: with a nonzero hi it is above every
\* uint32_t, so uptime_hours is not 0 and the quotient of the uint32_t
\* product by it is 0
FaultStatsGetFaultRatePerHour(st) ==
    LET total_faults == FaultStatsGetTotalFaults(st)
        uptime_hours_is_0 == /\ st.uptime_ms.hi = U32Zero
                             /\ U32Div(st.uptime_ms.lo, U32OfNat(1000 * 60 * 60)) = U32Zero
    IN IF uptime_hours_is_0 THEN 0
       ELSE IF st.uptime_ms.hi # U32Zero THEN 0
       ELSE U32Div(U32MulSmall(total_faults, 3600), st.uptime_ms.lo).lo

\* the body shared by fault_stats_record_detected and
\* fault_stats_record_undetected: the counter of the source steps, a
\* uint32_t `++`; an unknown fault_type returns false
FaultStatsRecord(field, fault_type) ==
    LET src == StatsSource(fault_type) IN
    /\ stats_updates < MaxStatsUpdates
    /\ stats_updates' = stats_updates + 1
    /\ stats_arg' = fault_type
    /\ stats_out' = NotWritten
    /\ IF g_stats_locked \/ src = "none"
       THEN /\ stats_ret' = FALSE
            /\ UNCHANGED g_fault_stats
       ELSE /\ stats_ret' = TRUE
            /\ g_fault_stats' = [g_fault_stats EXCEPT ![field][src] = U32Inc(@)]
    /\ UNCHANGED <<g_stats_locked, not_stats_vars>>

fault_stats_record_detected(fault_type) ==
    /\ stats_op' = "fault_stats_record_detected"
    /\ FaultStatsRecord("detected", fault_type)

fault_stats_record_undetected(fault_type) ==
    /\ stats_op' = "fault_stats_record_undetected"
    /\ FaultStatsRecord("undetected", fault_type)

fault_stats_record_recovery_failure ==
    /\ stats_updates < MaxStatsUpdates
    /\ stats_updates' = stats_updates + 1
    /\ stats_op' = "fault_stats_record_recovery_failure"
    /\ stats_arg' = 0 /\ stats_out' = NotWritten
    /\ IF g_stats_locked
       THEN /\ stats_ret' = FALSE
            /\ UNCHANGED g_fault_stats
       ELSE /\ stats_ret' = TRUE
            /\ g_fault_stats' = [g_fault_stats EXCEPT !.recovery_failures = U32Inc(@)]
    /\ UNCHANGED <<g_stats_locked, not_stats_vars>>

fault_stats_update_uptime(uptime_ms) ==
    /\ stats_op' = "fault_stats_update_uptime"
    /\ stats_arg' = 0 /\ stats_out' = NotWritten
    /\ IF g_stats_locked
       THEN /\ stats_ret' = FALSE
            /\ UNCHANGED g_fault_stats
       ELSE /\ stats_ret' = TRUE
            /\ g_fault_stats' = [g_fault_stats EXCEPT !.uptime_ms = uptime_ms]
    /\ UNCHANGED <<g_stats_locked, stats_updates, not_stats_vars>>

fault_stats_calculate_dc(fault_type) ==
    LET c == FaultStatsCalculateDc(g_fault_stats, fault_type) IN
    /\ stats_op' = "fault_stats_calculate_dc"
    /\ stats_arg' = fault_type
    /\ stats_ret' = c.ret /\ stats_out' = c.out
    /\ UNCHANGED <<g_fault_stats, g_stats_locked, stats_updates, not_stats_vars>>

fault_stats_get_fault_rate_per_hour ==
    /\ stats_op' = "fault_stats_get_fault_rate_per_hour"
    /\ stats_arg' = 0
    /\ stats_ret' = TRUE
    /\ stats_out' = FaultStatsGetFaultRatePerHour(g_fault_stats)
    /\ UNCHANGED <<g_fault_stats, g_stats_locked, stats_updates, not_stats_vars>>

\* counter values a run starts from: none, a few, the last value whose
\* hundredfold fits 32 bits (42,949,672), the next one, and the largest
StatCounts == { U32Zero, U32(0, 1), U32(0, 3), U32(655, 23592), U32(655, 23593), U32Max }

\* uptimes in ms: none, one second, one ms short of an hour, one hour, two
\* hours, and 2^32 ms
Uptimes == { [hi |-> U32Zero, lo |-> U32OfNat(0)], [hi |-> U32Zero, lo |-> U32OfNat(1000)],
             [hi |-> U32Zero, lo |-> U32OfNat(3599999)], [hi |-> U32Zero, lo |-> U32OfNat(3600000)],
             [hi |-> U32Zero, lo |-> U32OfNat(7200000)], [hi |-> U32(0, 1), lo |-> U32Zero] }

\* the statistics after a run that recorded faults of the power source and
\* of the clock source
InitStatsRun ==
    /\ InitFsm
    /\ InitHandlers(U32Zero, U32Zero)
    /\ InitServices
    /\ \E d \in StatCounts, u \in {U32Zero, U32(0, 1), U32Max}, c \in {U32Zero, U32(0, 1)}, up \in Uptimes :
          InitStats([InitialStats EXCEPT !.detected["pwr"] = d,
                                         !.undetected["pwr"] = u,
                                         !.detected["clk"] = c,
                                         !.uptime_ms = up])

\* the calls with each fault_type of a source and one the switch rejects
NextStats ==
    LET StatsTypeArgs == { FAULT_TYPE_VDD, FAULT_TYPE_CLK, FAULT_TYPE_MEM_ECC,
                           FAULT_TYPE_NONE } IN
    \/ \E t \in StatsTypeArgs : fault_stats_record_detected(t)
    \/ \E t \in StatsTypeArgs : fault_stats_record_undetected(t)
    \/ fault_stats_record_recovery_failure
    \/ \E up \in Uptimes : fault_stats_update_uptime(up)
    \/ \E t \in StatsTypeArgs : fault_stats_calculate_dc(t)
    \/ fault_stats_get_fault_rate_per_hour

\* the statistics calls, from any of the starting records
SpecStats == InitStatsRun /\ [][NextStats]_vars

\* ------------------------- fault_statistics.c, one statement of a call per step

\* the fields of the record in the order fault_stats_get_statistics copies
\* them; last_update_ms is 0 in every record
StatsFields(st) ==
    << st.detected["pwr"], st.undetected["pwr"], st.detected["clk"], st.undetected["clk"],
       st.detected["mem"], st.undetected["mem"], st.recovery_successes,
       st.recovery_failures, st.uptime_ms, 0 >>

\* the record after the update statement of the writer fn with argument a, a
\* fault_type or an uptime in ms below 2^31
StatsUpdate(fn, a, st) ==
    CASE fn = "fault_stats_record_detected" ->
            [st EXCEPT !.detected[StatsSource(a)] = U32Inc(@)]
      [] fn = "fault_stats_record_undetected" ->
            [st EXCEPT !.undetected[StatsSource(a)] = U32Inc(@)]
      [] fn = "fault_stats_record_recovery_success" ->
            [st EXCEPT !.recovery_successes = U32Inc(@)]
      [] fn = "fault_stats_record_recovery_failure" ->
            [st EXCEPT !.recovery_failures = U32Inc(@)]
      [] fn = "fault_stats_reset" -> InitialStats
      [] fn = "fault_stats_update_uptime" ->
            [st EXCEPT !.uptime_ms = [hi |-> U32Zero, lo |-> U32OfNat(a)]]

\* context c enters fn(a); the interrupt enters at any point of the task, the
\* task only while no interrupt runs
fault_stats_call(c, fn, a) ==
    /\ stats_calls < MaxStatsCalls
    /\ stats_pc[c] = "idle"
    /\ c = "isr" \/ stats_pc["isr"] = "idle"
    /\ stats_calls' = stats_calls + 1
    /\ stats_pc' = [stats_pc EXCEPT ![c] = "entry"]
    /\ stats_fn' = [stats_fn EXCEPT ![c] = fn]
    /\ stats_call_arg' = [stats_call_arg EXCEPT ![c] = a]
    /\ stats_call_ret' = [stats_call_ret EXCEPT ![c] = "none"]
    /\ stats_snapshot' = [stats_snapshot EXCEPT ![c] = << >>]
    /\ stats_seen' = [stats_seen EXCEPT ![c] = {StatsFields(g_fault_stats)}]
    /\ UNCHANGED <<stats_vars, not_stats_call_vars>>

\* a writer: `if (g_stats_locked) return false; g_stats_locked = true;`.  An
\* interrupt between the two statements returns with the lock as it found it
\* or never returns, so the two are one step
fault_stats_writer_lock(c) ==
    /\ stats_pc[c] = "entry"
    /\ c = "isr" \/ stats_pc["isr"] = "idle"
    /\ stats_fn[c] # "fault_stats_get_statistics"
    /\ IF g_stats_locked
       THEN /\ stats_pc' = [stats_pc EXCEPT ![c] = "idle"]
            /\ stats_call_ret' = [stats_call_ret EXCEPT ![c] = "false"]
            /\ UNCHANGED g_stats_locked
       ELSE /\ g_stats_locked' = TRUE
            /\ stats_pc' = [stats_pc EXCEPT ![c] = "update"]
            /\ UNCHANGED stats_call_ret
    /\ UNCHANGED <<g_fault_stats, stats_op, stats_arg, stats_ret, stats_out, stats_updates,
                   stats_fn, stats_call_arg, stats_snapshot, stats_seen, stats_calls,
                   not_stats_call_vars>>

\* a writer, under the lock: the update, or the default branch of the switch,
\* which releases the lock and returns false
fault_stats_writer_update(c) ==
    /\ stats_pc[c] = "update"
    /\ c = "isr" \/ stats_pc["isr"] = "idle"
    /\ IF /\ stats_fn[c] \in {"fault_stats_record_detected", "fault_stats_record_undetected"}
          /\ StatsSource(stats_call_arg[c]) = "none"
       THEN /\ g_stats_locked' = FALSE
            /\ stats_pc' = [stats_pc EXCEPT ![c] = "idle"]
            /\ stats_call_ret' = [stats_call_ret EXCEPT ![c] = "false"]
            /\ UNCHANGED <<g_fault_stats, stats_seen>>
       ELSE LET st == StatsUpdate(stats_fn[c], stats_call_arg[c], g_fault_stats) IN
            /\ g_fault_stats' = st
            /\ stats_seen' = [r \in StatsContexts |->
                                 IF stats_pc[r] # "idle"
                                    /\ stats_fn[r] = "fault_stats_get_statistics"
                                 THEN stats_seen[r] \cup {StatsFields(st)}
                                 ELSE stats_seen[r]]
            /\ stats_pc' = [stats_pc EXCEPT ![c] = "unlock"]
            /\ UNCHANGED <<g_stats_locked, stats_call_ret>>
    /\ UNCHANGED <<stats_op, stats_arg, stats_ret, stats_out, stats_updates,
                   stats_fn, stats_call_arg, stats_snapshot, stats_calls, not_stats_call_vars>>

\* a writer: `g_stats_locked = false; return true;`
fault_stats_writer_unlock(c) ==
    /\ stats_pc[c] = "unlock"
    /\ c = "isr" \/ stats_pc["isr"] = "idle"
    /\ g_stats_locked' = FALSE
    /\ stats_pc' = [stats_pc EXCEPT ![c] = "idle"]
    /\ stats_call_ret' = [stats_call_ret EXCEPT ![c] = "true"]
    /\ UNCHANGED <<g_fault_stats, stats_op, stats_arg, stats_ret, stats_out, stats_updates,
                   stats_fn, stats_call_arg, stats_snapshot, stats_seen, stats_calls,
                   not_stats_call_vars>>

\* fault_stats_get_statistics: `while (g_stats_locked) { }`; an iteration with
\* the lock held changes nothing
fault_stats_get_statistics_wait(c) ==
    /\ stats_pc[c] = "entry"
    /\ c = "isr" \/ stats_pc["isr"] = "idle"
    /\ stats_fn[c] = "fault_stats_get_statistics"
    /\ IF g_stats_locked
       THEN UNCHANGED stats_pc
       ELSE stats_pc' = [stats_pc EXCEPT ![c] = "copy"]
    /\ UNCHANGED <<stats_vars, stats_fn, stats_call_arg, stats_call_ret, stats_snapshot,
                   stats_seen, stats_calls, not_stats_call_vars>>

\* fault_stats_get_statistics: the next of the ten field copies, and `return
\* true` after the last
fault_stats_get_statistics_copy(c) ==
    LET copied == Append(stats_snapshot[c],
                         StatsFields(g_fault_stats)[Len(stats_snapshot[c]) + 1]) IN
    /\ stats_pc[c] = "copy"
    /\ c = "isr" \/ stats_pc["isr"] = "idle"
    /\ stats_snapshot' = [stats_snapshot EXCEPT ![c] = copied]
    /\ IF Len(copied) = Len(StatsFields(g_fault_stats))
       THEN /\ stats_pc' = [stats_pc EXCEPT ![c] = "idle"]
            /\ stats_call_ret' = [stats_call_ret EXCEPT ![c] = "true"]
       ELSE UNCHANGED <<stats_pc, stats_call_ret>>
    /\ UNCHANGED <<stats_vars, stats_fn, stats_call_arg, stats_seen, stats_calls,
                   not_stats_call_vars>>

\* the record after a run that detected power faults and failed recoveries
InitStatsCalls ==
    /\ InitFsm
    /\ InitHandlers(U32Zero, U32Zero)
    /\ InitServices
    /\ \E d \in {U32Zero, U32(0, 1)}, f \in {U32Zero, U32(0, 1)} :
          InitStats([InitialStats EXCEPT !.detected["pwr"] = d,
                                         !.recovery_failures = f])

\* every writer and the reader, in the task and in the interrupt; the record
\* calls with the fault_type of a source and with one the switch rejects
NextStatsCalls ==
    \E c \in StatsContexts :
       \/ \E fn \in {"fault_stats_record_detected", "fault_stats_record_undetected"},
             a \in {FAULT_TYPE_VDD, FAULT_TYPE_NONE} : fault_stats_call(c, fn, a)
       \/ \E fn \in {"fault_stats_record_recovery_success",
                     "fault_stats_record_recovery_failure", "fault_stats_reset",
                     "fault_stats_get_statistics"} : fault_stats_call(c, fn, 0)
       \/ fault_stats_call(c, "fault_stats_update_uptime", 1000)
       \/ fault_stats_writer_lock(c)
       \/ fault_stats_writer_update(c)
       \/ fault_stats_writer_unlock(c)
       \/ fault_stats_get_statistics_wait(c)
       \/ fault_stats_get_statistics_copy(c)

SpecStatsCalls == InitStatsCalls /\ [][NextStatsCalls]_vars

\* the scheduler runs the context that can run
SpecStatsCallsFair == SpecStatsCalls /\ WF_vars(NextStatsCalls)

\* ------------------------------------- the argument and busy error returns

\* fault_aggregate(NULL): `if (aggregated_faults == NULL) return false;`
fault_aggregate_null ==
    /\ op' = "fault_aggregate(NULL)" /\ arg' = 0 /\ ret' = FALSE
    /\ out' = NotWritten /\ prio' = NotWritten
    /\ UNCHANGED <<g_safety_status, g_fsm_initialized, g_aggregator_busy,
                   corruption_event, not_fsm_vars>>

\* fsm_get_status(NULL): `if (status == NULL) return false;`
fsm_get_status_null ==
    /\ op' = "fsm_get_status(NULL)" /\ arg' = 0 /\ ret' = FALSE
    /\ out' = NotWritten /\ prio' = NotWritten
    /\ UNCHANGED <<g_safety_status, g_fsm_initialized, g_aggregator_busy,
                   corruption_event, not_fsm_vars>>

\* fault_stats_calculate_dc(fault_type, NULL): `if (dc_percent == NULL) return
\* false;`
fault_stats_calculate_dc_null(fault_type) ==
    /\ stats_op' = "fault_stats_calculate_dc(NULL)"
    /\ stats_arg' = fault_type
    /\ stats_ret' = FALSE /\ stats_out' = NotWritten
    /\ UNCHANGED <<g_fault_stats, g_stats_locked, stats_updates, not_stats_vars>>

\* the calls that can fail on an argument or on a busy module.  The aggregator
\* runs one statement per step for two callers, the statistics for the task
\* and an interrupt; the two modules share no variable, and a run works on
\* one of them.  The priority triples are in range, or have one priority below
\* or above 1..3
NextErrors ==
    LET aggregator_untouched ==
            /\ op = "boot"
            /\ \A p \in Callers : gate_pc[p] = "idle" /\ gate_ret[p] = "none"
        statistics_untouched == stats_calls = 0 /\ stats_op = "boot"
    IN
    \/ statistics_untouched /\ fsm_init
    \/ statistics_untouched /\ flag_set("pwr")
    \/ statistics_untouched /\ \E p \in Callers : aggregate_enter(p)
    \/ statistics_untouched /\ \E p \in Callers : aggregate_set(p)
    \/ statistics_untouched /\ \E p \in Callers : aggregate_status(p)
    \/ statistics_untouched /\ \E p \in Callers : aggregate_fsm(p)
    \/ statistics_untouched /\ \E p \in Callers : reset_enter(p)
    \/ statistics_untouched /\ \E p \in Callers : reset_set(p)
    \/ statistics_untouched /\ \E p \in Callers : reset_clear(p, FAULT_TYPE_VDD)
    \/ statistics_untouched /\ \E p \in Callers : gate_release(p)
    \/ statistics_untouched
          /\ \E t \in { <<3, 2, 1>>, <<0, 2, 3>>, <<1, 4, 3>>, <<1, 2, 4>> } :
                fault_set_priorities(t[1], t[2], t[3])
    \/ statistics_untouched /\ fault_aggregate_null
    \/ statistics_untouched /\ fsm_get_status_null
    \/ aggregator_untouched /\ NextStatsCalls
    \/ aggregator_untouched /\ fault_stats_calculate_dc_null(FAULT_TYPE_VDD)

SpecErrors == Init /\ [][NextErrors]_vars

\* ------------------------------------------------------ observed values

\* what fsm_get_state() returns in the current state
fsm_get_state == FsmGetState(g_safety_status)

active_faults == g_safety_status.active_faults

\* ================================================================ claims

\* the admissible (current, next) pairs as the transition table of the
\* design lists them
AdmissiblePairs ==
    { <<SAFETY_STATE_INIT, SAFETY_STATE_NORMAL>>,
      <<SAFETY_STATE_NORMAL, SAFETY_STATE_NORMAL>>,
      <<SAFETY_STATE_NORMAL, SAFETY_STATE_FAULT>>,
      <<SAFETY_STATE_NORMAL, SAFETY_STATE_SAFE_STATE>>,
      <<SAFETY_STATE_FAULT, SAFETY_STATE_FAULT>>,
      <<SAFETY_STATE_FAULT, SAFETY_STATE_SAFE_STATE>>,
      <<SAFETY_STATE_FAULT, SAFETY_STATE_RECOVERY>>,
      <<SAFETY_STATE_SAFE_STATE, SAFETY_STATE_SAFE_STATE>>,
      <<SAFETY_STATE_SAFE_STATE, SAFETY_STATE_RECOVERY>>,
      <<SAFETY_STATE_RECOVERY, SAFETY_STATE_NORMAL>>,
      <<SAFETY_STATE_RECOVERY, SAFETY_STATE_FAULT>>,
      <<SAFETY_STATE_RECOVERY, SAFETY_STATE_SAFE_STATE>>,
      <<SAFETY_STATE_RECOVERY, SAFETY_STATE_RECOVERY>> }

\* the step is a call fsm_transition(arg') that the table does not admit
InadmissibleRequest ==
    /\ op' = "fsm_transition"
    /\ <<g_safety_status.current_state, arg'>> \notin AdmissiblePairs

\* C1: on an initialized FSM, fsm_transition(next) returns success and makes
\* the state next exactly for the admissible pairs, and for every other pair
\* returns failure and stores INVALID; as long as no inadmissible transition
\* was requested, fsm_get_state() does not return INVALID.
C1_TransitionMatrix ==
    /\ [][ (op' = "fsm_transition" /\ g_fsm_initialized) =>
             IF <<g_safety_status.current_state, arg'>> \in AdmissiblePairs
             THEN /\ ret' = TRUE
                  /\ g_safety_status'.current_state = arg'
                  /\ fsm_get_state' = arg'
             ELSE /\ ret' = FALSE
                  /\ g_safety_status'.current_state = SAFETY_STATE_INVALID
                  /\ fsm_get_state' = SAFETY_STATE_INVALID ]_vars
    /\ [](~corruption_event => fsm_get_state # SAFETY_STATE_INVALID)

\* an admissible chain INIT -> NORMAL -> FAULT -> RECOVERY has been walked
C1_Witness ==
    /\ op = "fsm_transition" /\ ret = TRUE
    /\ fsm_get_state = SAFETY_STATE_RECOVERY
    /\ ~corruption_event

FsmCalls == {"fsm_transition", "fsm_aggregate_faults", "fsm_clear_faults", "fsm_init"}

\* once INVALID, every later FSM call leaves fsm_get_state() at INVALID
InvalidLatched ==
    (fsm_get_state = SAFETY_STATE_INVALID /\ op' \in FsmCalls)
        => fsm_get_state' = SAFETY_STATE_INVALID

\* C2 as stated: every inadmissible fsm_transition leaves fsm_get_state() at
\* INVALID right after the call, and INVALID stays after every later FSM call.
C2_Original ==
    [][ /\ InadmissibleRequest => fsm_get_state' = SAFETY_STATE_INVALID
        /\ InvalidLatched ]_vars

\* C2 amended: the same for an inadmissible fsm_transition requested on an
\* initialized FSM (before fsm_init() the call is rejected and stores nothing).
C2_InvalidLatch ==
    [][ /\ (InadmissibleRequest /\ g_fsm_initialized)
              => fsm_get_state' = SAFETY_STATE_INVALID
        /\ InvalidLatched ]_vars

\* a second fsm_init() was refused on a latched FSM
C2_Witness ==
    /\ op = "fsm_init" /\ ret = FALSE
    /\ corruption_event
    /\ fsm_get_state = SAFETY_STATE_INVALID

\* C3 (I3): whenever the FSM state is FAULT the active_faults bitmask is
\* non-zero.
C3_FaultImpliesActive ==
    fsm_get_state = SAFETY_STATE_FAULT => active_faults # FAULT_TYPE_NONE

\* C4 (I4): whenever the FSM state is NORMAL the active_faults bitmask is zero.
C4_NormalImpliesNoFaults ==
    fsm_get_state = SAFETY_STATE_NORMAL => active_faults = FAULT_TYPE_NONE

\* the flag DRBs of st are valid: complement = 0xFF - value
FlagsValid(st) ==
    /\ st.pwr_fault + st.pwr_fault_cmp = 255
    /\ st.clk_fault + st.clk_fault_cmp = 255
    /\ st.mem_fault + st.mem_fault_cmp = 255

\* the fault set the asserted flags of st stand for: VDD=0x01, CLK=0x02, MEM=0x04
FlagSet(st) ==
    (IF st.pwr_fault # 0 THEN 1 ELSE 0)
    + (IF st.clk_fault # 0 THEN 2 ELSE 0)
    + (IF st.mem_fault # 0 THEN 4 ELSE 0)

\* active_faults of the next state is the DRB of the asserted flags
ActiveFaultsRefreshed ==
    /\ g_safety_status'.active_faults = FlagSet(g_safety_status')
    /\ g_safety_status'.active_faults_cmp = 255 - FlagSet(g_safety_status')

SelectedFault(faults) ==
    IF faults \in {1, 3, 5, 7} THEN <<FAULT_TYPE_VDD, 1>>
    ELSE IF faults \in {2, 6} THEN <<FAULT_TYPE_CLK, 2>>
    ELSE IF faults = 4 THEN <<FAULT_TYPE_MEM_ECC, 3>>
    ELSE <<FAULT_TYPE_NONE, 0>>

\* C6: fault_get_highest_priority returns VDD/1, else CLK/2, else MEM/3, else
\* NONE/0 over active_faults, and fault_aggregate writes the same selection
\* (over the flags it aggregated) to its output.
C6_HighestPriority ==
    /\ (op = "fault_get_highest_priority" /\ ret = TRUE)
          => <<out, prio>> = SelectedFault(active_faults)
    /\ (op = "fault_aggregate" /\ out # NotWritten)
          => out = SelectedFault(FlagSet(g_safety_status))[1]
    /\ (op = "fault_aggregate" /\ ret = TRUE)
          => out = SelectedFault(active_faults)[1]

\* CLK and MEM both active: CLK selected with priority 2
C6_Witness ==
    /\ op = "fault_get_highest_priority"
    /\ active_faults = 6
    /\ out = FAULT_TYPE_CLK /\ prio = 2

\* C7: with a flag DRB that violates value XOR complement = 0xFF,
\* fault_aggregate returns failure, leaves active_faults, the FSM state and
\* fault_count unchanged, and returns with the busy gate released.
C7_CorruptFlagAborts ==
    [][ (op' = "fault_aggregate" /\ ~FlagsValid(g_safety_status)) =>
          /\ ret' = FALSE
          /\ g_safety_status'.active_faults = g_safety_status.active_faults
          /\ g_safety_status'.active_faults_cmp = g_safety_status.active_faults_cmp
          /\ g_safety_status'.current_state = g_safety_status.current_state
          /\ g_safety_status'.current_state_cmp = g_safety_status.current_state_cmp
          /\ g_safety_status'.fault_count = g_safety_status.fault_count
          /\ g_aggregator_busy' = FALSE ]_vars

\* the clock flag has complement = value and the aggregation failed
C7_Witness ==
    /\ op = "fault_aggregate" /\ ret = FALSE
    /\ g_safety_status.clk_fault = 170
    /\ g_safety_status.clk_fault_cmp = 170
    /\ fsm_get_state = SAFETY_STATE_NORMAL

\* C8: after a corruption event (a DRB failing its invariant during an
\* aggregation, or an inadmissible transition request) the FSM state is
\* SAFE_STATE at the end of every later tick (a tick is one fault_aggregate).
C8_EscalatesToSafeState ==
    [][ (corruption_event /\ op' = "fault_aggregate")
            => fsm_get_state' = SAFETY_STATE_SAFE_STATE ]_vars

\* C9: under every statement-level interleaving of two callers of
\* fault_aggregate / fault_aggregator_reset at most one of them is between
\* setting g_aggregator_busy and clearing it, and a caller that is in the gate
\* holds it (the flag reads busy).
C9_GateExclusive ==
    /\ ~(InGate("task") /\ InGate("other"))
    /\ \A p \in Callers : InGate(p) => g_aggregator_busy

\* the stored clock flag pair satisfies value XOR complement = 0xFF
ClkPairValid ==
    BitXor(clk_fault_flag, clk_fault_flag_complement) = 255

\* C10: a task-context read of the clock flag that the clock-loss interrupt
\* preempts between its two byte reads sees the old pair or the new pair: it
\* does not return SAFETY_DCLS_ERROR while the stored pair is a valid one.
C10_NoTornRead ==
    (task_pc = "idle" /\ task_ret = "SAFETY_DCLS_ERROR") => ~ClkPairValid

\* the stored ECC flag pair satisfies value XOR complement = 0xFF
MemPairValid ==
    BitXor(mem_fault_flag, mem_fault_flag_complement) = 255

\* C11: a reader of a per-source flag pair that finds value XOR complement
\* # 0xFF reports the flag as asserted: clk_event_handler_get_fault_flag
\* stores true to *out_fault_detected, ecc_fault_is_active returns true.
C11_FailSafeBias ==
    /\ (task_pc = "idle" /\ task_ret = "SAFETY_DCLS_ERROR")
          => out_fault_detected = TRUE
    /\ (ecc_op = "ecc_fault_is_active" /\ ~MemPairValid)
          => ecc_ret = TRUE

\* C12: a per-source flag pair that violates value XOR complement = 0xFF
\* while no two-store update of it is in progress still violates it after
\* any interrupt, clear call or read (the specification has no init call).
C12_NeverRepaired ==
    [][ /\ (task_pc = "idle" /\ task_pc' = "idle" /\ ~ClkPairValid)
              => ~ClkPairValid'
        /\ ~MemPairValid => ~MemPairValid' ]_vars

RECURSIVE SatAdd32(_, _)
\* c + n, stopping at 0xFFFFFFFF
SatAdd32(c, n) ==
    IF n = 0 \/ c = U32Max THEN c
    ELSE SatAdd32(U32Inc(c), n - 1)

\* C17: after N non-nested interrupt entries of the clock (ECC) handler its
\* event counter is the starting value plus N, or 0xFFFFFFFF if that sum
\* exceeds it: the counter saturates and never wraps.
C17_EventCountSaturates ==
    /\ clk_fault_event_count = SatAdd32(clk_count_start, clk_isr_entries)
    /\ mem_fault_event_count = SatAdd32(mem_count_start, mem_isr_entries)

\* both counters started two short of saturation and took three entries
C17_Witness ==
    /\ clk_count_start # U32Zero /\ clk_isr_entries = 3
    /\ clk_fault_event_count = U32Max
    /\ mem_count_start # U32Zero /\ mem_isr_entries = 3
    /\ mem_fault_event_count = U32Max

\* a step that is one successful call of fsm_aggregate_faults() or
\* fault_aggregate()
AggregationStep ==
    /\ op' \in {"fsm_aggregate_faults", "fault_aggregate"}
    /\ ret' = TRUE
    /\ UNCHANGED not_fsm_vars

\* the active_faults bit of each source
FaultBit == [pwr |-> FAULT_TYPE_VDD, clk |-> FAULT_TYPE_CLK, mem |-> FAULT_TYPE_MEM_ECC]

\* C13: a flag asserted by a source interrupt handler that has completed
\* before an aggregation starts is included in active_faults by that
\* aggregation: after vdd_isr_handler / clk_isr_handler / mem_isr_handler
\* returns, and while the flag of clk_event_handler.c or ecc_handler.c stands
\* asserted, a successful aggregation leaves the bit of the source set.
C13_CompletedIsrIsAggregated ==
    [][ AggregationStep =>
          /\ \A s \in Sources :
                op = HalHandler[s] =>
                    BitAnd(g_safety_status'.active_faults, FaultBit[s]) # 0
          /\ (ClkPairValid /\ clk_fault_flag # 0) =>
                    BitAnd(g_safety_status'.active_faults, FAULT_TYPE_CLK) # 0
          /\ (MemPairValid /\ mem_fault_flag # 0) =>
                    BitAnd(g_safety_status'.active_faults, FAULT_TYPE_MEM_ECC) # 0
      ]_vars

\* C14: scenario S1: after fsm_init(), one VDD interrupt and then one
\* aggregator tick leave active_faults = VDD, the state FAULT, fault_count = 1
\* and VDD (priority 1) the highest-priority fault.
C14_ScenarioS1 ==
    [][ (op = "vdd_isr_handler" /\ arg = 1 /\ op' = "fault_aggregate"
            /\ UNCHANGED not_fsm_vars) =>
          /\ ret' = TRUE
          /\ g_safety_status'.active_faults = FAULT_TYPE_VDD
          /\ FsmGetState(g_safety_status') = SAFETY_STATE_FAULT
          /\ g_safety_status'.fault_count = 1
          /\ FaultGetHighestPriority(g_safety_status').fault = FAULT_TYPE_VDD
          /\ FaultGetHighestPriority(g_safety_status').priority = 1
      ]_vars

\* C15: the nesting counter is balanced and bounded: after the outermost
\* entry of a nest that stayed within the limit returns, clk_isr_nesting_level
\* is 0, and at every return of an entry, at any depth,
\* clk_isr_nesting_level <= CLK_ISR_MAX_NESTING.
C15_NestingBalanced ==
    [][ Len(clk_isr_stack') < Len(clk_isr_stack) =>
          /\ clk_isr_nesting_level' <= CLK_ISR_MAX_NESTING
          /\ (clk_isr_stack' = <<>> /\ ~clk_nest_overflowed') =>
                 clk_isr_nesting_level' = 0
      ]_vars

\* C16: once an entry has met the nesting limit and written both halves of
\* the flag to the same value, the pair still violates value XOR complement =
\* 0xFF when the outermost entry of that nest has returned.
C16_OverflowLeavesCorruption ==
    (clk_isr_stack = <<>> /\ clk_nest_overflowed) => ~ClkPairValid

\* C19: every interrupt handler invocation terminates at every nesting depth:
\* no entry in progress sits in a loop it cannot leave.
C19_IsrTerminates ==
    \A i \in DOMAIN hal_isr_stack : hal_isr_stack[i].pc # "halt"

\* the safety status owned by the task context: the FSM state DRB, the
\* active_faults DRB, fault_count, recovery_status and the record of the
\* recovery service
TaskOwnedStatus ==
    <<g_safety_status.current_state, g_safety_status.current_state_cmp,
      g_safety_status.active_faults, g_safety_status.active_faults_cmp,
      g_safety_status.fault_count, g_safety_status.recovery_status,
      g_fsm_initialized, ServiceRecord>>

\* a step in which an interrupt handler of the source runs
HalIsrStep(s) == g_isr_call_counts'[s] # g_isr_call_counts[s]

ClkIsrStep == clk_isr_entries' # clk_isr_entries

EccIsrStep == mem_isr_entries' # mem_isr_entries

\* the flag DRB of a source in g_safety_status
StatusFlag(st, s) ==
    CASE s = "pwr" -> <<st.pwr_fault, st.pwr_fault_cmp>>
      [] s = "clk" -> <<st.clk_fault, st.clk_fault_cmp>>
      [] s = "mem" -> <<st.mem_fault, st.mem_fault_cmp>>

ServiceEdges ==
    { <<CLK_SERVICE_STATE_IDLE, CLK_SERVICE_STATE_FAULT_ACTIVE>>,
      <<CLK_SERVICE_STATE_FAULT_ACTIVE, CLK_SERVICE_STATE_IDLE>>,
      <<CLK_SERVICE_STATE_FAULT_ACTIVE, CLK_SERVICE_STATE_RECOVERY_PENDING>>,
      <<CLK_SERVICE_STATE_RECOVERY_PENDING, CLK_SERVICE_STATE_FAULT_ACTIVE>>,
      <<CLK_SERVICE_STATE_RECOVERY_PENDING, CLK_SERVICE_STATE_RECOVERY_CONFIRMED>>,
      <<CLK_SERVICE_STATE_RECOVERY_CONFIRMED, CLK_SERVICE_STATE_FAULT_ACTIVE>>,
      <<CLK_SERVICE_STATE_RECOVERY_CONFIRMED, CLK_SERVICE_STATE_IDLE>> }

AllSamples(h, n, b) == Len(h) = n /\ \A i \in 1..n : h[i] = b

\* the samples of a run that saw the fault asserted on ticks 1..k-1 and
\* deasserted on the j ticks from tick k on
AssertedThenClear(h, k, j) ==
    /\ Len(h) = k - 1 + j
    /\ \A i \in 1..Len(h) : h[i] = (i < k)

\* a step that is one tick of the service task
TickStep == svc_op' = "clk_service_task" /\ UNCHANGED not_svc_vars

\* a step that is one call of clk_service_request_recovery()
RequestStep == svc_op' = "clk_service_request_recovery" /\ UNCHANGED not_svc_vars

\* C21: scenario S3 for every k < recovery_timeout_ticks: with the service
\* FAULT_ACTIVE at tick 0, the fault asserted on ticks 1..k-1 and deasserted
\* from tick k on, the service is RECOVERY_PENDING from tick k to tick k+4,
\* RECOVERY_CONFIRMED after tick k + stability_check_duration, and a
\* clk_service_request_recovery() that follows returns SAFETY_OK and leaves
\* the service IDLE.
C21_RecoveryAfterStabilityWindow ==
    [][ /\ \A k \in 1..(recovery_timeout_ticks - 1) :
              \A j \in 1..(stability_check_duration + 1) :
                 AssertedThenClear(svc_hist', k, j) =>
                    clk_service_state' =
                       IF j <= stability_check_duration
                       THEN CLK_SERVICE_STATE_RECOVERY_PENDING
                       ELSE CLK_SERVICE_STATE_RECOVERY_CONFIRMED
        /\ (RequestStep /\ clk_service_state = CLK_SERVICE_STATE_RECOVERY_CONFIRMED) =>
              /\ svc_ret' = "SAFETY_OK"
              /\ clk_service_state' = CLK_SERVICE_STATE_IDLE
      ]_vars

\* the recovery of scenario S3 (k = 2) was confirmed on tick 7 and has just
\* been taken by clk_service_request_recovery()
C21_Witness ==
    /\ svc_op = "clk_service_request_recovery" /\ svc_ret = "SAFETY_OK"
    /\ svc_from = CLK_SERVICE_STATE_RECOVERY_CONFIRMED
    /\ clk_service_state = CLK_SERVICE_STATE_IDLE
    /\ clk_recovery_timeout_counter = 2
    /\ clk_stability_counter = stability_check_duration

TimeoutStep ==
    /\ TickStep
    /\ clk_service_state = CLK_SERVICE_STATE_FAULT_ACTIVE
    /\ clk_service_state' = CLK_SERVICE_STATE_IDLE

\* C23: each recovery timeout increments the statistics counter
\* recovery_failures by exactly 1.
C23_TimeoutCountsFailure ==
    [][ TimeoutStep =>
          g_fault_stats'.recovery_failures = U32Inc(g_fault_stats.recovery_failures)
      ]_vars

\* C24: after a recovery timeout has returned the service to IDLE, a tick
\* that still samples the fault asserted, with no clk_service_handle_fault()
\* since, leaves the service IDLE.
C24_NoRetryAfterTimeout ==
    [][ (TickStep /\ svc_timed_out /\ svc_arg'
            /\ clk_service_state = CLK_SERVICE_STATE_IDLE) =>
          clk_service_state' = CLK_SERVICE_STATE_IDLE
      ]_vars

\* C25: scenario S5: from RECOVERY_PENDING with any stability count, a tick
\* that samples the fault asserted moves the service to FAULT_ACTIVE with
\* the timeout counter and the stability counter both 0.
C25_GlitchRestartsTimeout ==
    [][ (TickStep /\ svc_arg'
            /\ clk_service_state = CLK_SERVICE_STATE_RECOVERY_PENDING) =>
          /\ clk_service_state' = CLK_SERVICE_STATE_FAULT_ACTIVE
          /\ clk_recovery_timeout_counter' = 0
          /\ clk_stability_counter' = 0
      ]_vars

\* a tick found the service RECOVERY_PENDING, sampled the fault asserted and
\* left it FAULT_ACTIVE with the counters cleared
C25_Witness ==
    /\ svc_from = CLK_SERVICE_STATE_RECOVERY_PENDING
    /\ clk_service_state = CLK_SERVICE_STATE_FAULT_ACTIVE
    /\ svc_op = "clk_service_task" /\ svc_arg = TRUE
    /\ clk_recovery_timeout_counter = 0
    /\ clk_stability_counter = 0

LastSamplesClear(h, n) ==
    /\ Len(h) >= n
    /\ \A i \in (Len(h) - n + 1)..Len(h) : h[i] = FALSE

\* C27: hysteresis: the service is RECOVERY_CONFIRMED only when the fault was
\* sampled deasserted on each of the stability_check_duration ticks just
\* before, so clk_service_request_recovery() never consumes a confirmed
\* recovery after a shorter deassertion.
C27_Hysteresis ==
    [][ /\ clk_service_state' = CLK_SERVICE_STATE_RECOVERY_CONFIRMED =>
              LastSamplesClear(svc_hist', stability_check_duration)
        /\ (RequestStep /\ clk_service_state # CLK_SERVICE_STATE_IDLE
               /\ clk_service_state' = CLK_SERVICE_STATE_IDLE) =>
              LastSamplesClear(svc_hist, stability_check_duration)
      ]_vars

\* clk_service_request_recovery() was refused with the fault deasserted for
\* five ticks: the tick that left FAULT_ACTIVE and four of the stability window
C27_Witness ==
    /\ clk_service_state = CLK_SERVICE_STATE_RECOVERY_PENDING
    /\ LastSamplesClear(svc_hist, stability_check_duration)
    /\ ~LastSamplesClear(svc_hist, stability_check_duration + 1)
    /\ svc_op = "clk_service_request_recovery" /\ svc_ret = "SAFETY_PENDING"

\* C28: every IDLE -> FAULT_ACTIVE transition, by clk_service_handle_fault()
\* or by a tick that samples the fault asserted in IDLE, resets both counters
\* and increments the attempt count by 1; clk_service_handle_fault() in a
\* state other than IDLE changes nothing.
C28_FaultEntry ==
    [][ /\ (clk_service_state = CLK_SERVICE_STATE_IDLE
               /\ clk_service_state' = CLK_SERVICE_STATE_FAULT_ACTIVE) =>
              /\ clk_recovery_timeout_counter' = 0
              /\ clk_stability_counter' = 0
              /\ clk_recovery_attempts' = clk_recovery_attempts + 1
        /\ (svc_op' = "clk_service_handle_fault" /\ UNCHANGED not_svc_vars
               /\ clk_service_state # CLK_SERVICE_STATE_IDLE) =>
              UNCHANGED <<clk_service_state, clk_recovery_timeout_counter,
                          clk_stability_counter, clk_recovery_attempts>>
      ]_vars

\* Exact arithmetic for the statistics claims: a natural number is a sequence
\* of 16-bit limbs, least significant first; trailing zero limbs do not
\* change it.

Limb(x, i) == IF i <= Len(x) THEN x[i] ELSE 0

LimbCount(x, y) == IF Len(x) >= Len(y) THEN Len(x) ELSE Len(y)

\* a uint32_t [hi, lo] as limbs
ToBig(c) == <<c.lo, c.hi>>

\* a uint64_t [hi, lo] of two uint32_t as limbs
ToBig64(c) == <<c.lo.lo, c.lo.hi, c.hi.lo, c.hi.hi>>

RECURSIVE BigAddFrom(_, _, _, _)
BigAddFrom(x, y, i, carry) ==
    IF i > LimbCount(x, y) THEN IF carry = 0 THEN <<>> ELSE <<carry>>
    ELSE LET v == Limb(x, i) + Limb(y, i) + carry IN
         <<v % 65536>> \o BigAddFrom(x, y, i + 1, v \div 65536)

BigAdd(x, y) == BigAddFrom(x, y, 1, 0)

RECURSIVE BigMulFrom(_, _, _, _)
BigMulFrom(x, m, i, carry) ==
    IF i > Len(x) THEN IF carry = 0 THEN <<>> ELSE <<carry>>
    ELSE LET v == x[i] * m + carry IN
         <<v % 65536>> \o BigMulFrom(x, m, i + 1, v \div 65536)

\* x * m for m below 2^15
BigMulSmall(x, m) == BigMulFrom(x, m, 1, 0)

\* x * m for m up to 2^16
BigMul16(x, m) ==
    BigAdd(BigMulSmall(BigMulSmall(x, m \div 256), 256), BigMulSmall(x, m % 256))

RECURSIVE BigLessFrom(_, _, _)
BigLessFrom(x, y, i) ==
    IF i = 0 THEN FALSE
    ELSE IF Limb(x, i) # Limb(y, i) THEN Limb(x, i) < Limb(y, i)
    ELSE BigLessFrom(x, y, i - 1)

BigLess(x, y) == BigLessFrom(x, y, LimbCount(x, y))

BigIsZero(x) == \A i \in 1..Len(x) : x[i] = 0

\* q = floor(num / den), for den > 0 and q up to 0xFFFF
IsFloorQuotient(q, num, den) ==
    /\ ~BigLess(num, BigMul16(den, q))
    /\ BigLess(num, BigMul16(den, q + 1))

\* C29: for all 32-bit counter values detected and undetected of a source,
\* fault_stats_calculate_dc() returns a value in 0..100 that is
\* floor(detected * 100 / (detected + undetected)) when the sum is above 0,
\* and 0 when it is 0.
C29_DcIsExactPercentage ==
    (stats_op = "fault_stats_calculate_dc" /\ stats_ret) =>
        LET src == StatsSource(stats_arg)
            detected == ToBig(g_fault_stats.detected[src])
            total == BigAdd(detected, ToBig(g_fault_stats.undetected[src]))
        IN /\ stats_out \in 0..100
           /\ IF BigIsZero(total) THEN stats_out = 0
              ELSE IsFloorQuotient(stats_out, BigMulSmall(detected, 100), total)

\* C30: fault_stats_get_fault_rate_per_hour() returns
\* total_detected * 3,600,000 / uptime_ms (integer division) for every
\* uptime_ms above 0, uptimes shorter than one hour included, and 0 when
\* uptime_ms is 0.
C30_RatePerHour ==
    (stats_op = "fault_stats_get_fault_rate_per_hour" /\ stats_ret) =>
        LET total_detected ==
                BigAdd(BigAdd(ToBig(g_fault_stats.detected["pwr"]),
                              ToBig(g_fault_stats.detected["clk"])),
                       ToBig(g_fault_stats.detected["mem"]))
            uptime_ms == ToBig64(g_fault_stats.uptime_ms)
        IN IF BigIsZero(uptime_ms) THEN stats_out = 0
           ELSE IsFloorQuotient(stats_out,
                                BigMulSmall(BigMulSmall(total_detected, 3600), 1000),
                                uptime_ms)

\* C40: at every tick boundary the timeout counter is below
\* recovery_timeout_ticks, the stability counter is at most
\* stability_check_duration, and RECOVERY_CONFIRMED holds only with the
\* stability counter equal to it; in FAULT_ACTIVE the timeout counter is the
\* number of ticks spent there since the entry, so the service never spends
\* more than recovery_timeout_ticks consecutive ticks in FAULT_ACTIVE.
C40_CounterBounds ==
    /\ clk_recovery_timeout_counter < recovery_timeout_ticks
    /\ clk_stability_counter <= stability_check_duration
    /\ (clk_service_state = CLK_SERVICE_STATE_RECOVERY_CONFIRMED =>
           clk_stability_counter = stability_check_duration)
    /\ (clk_service_state = CLK_SERVICE_STATE_FAULT_ACTIVE =>
           Len(svc_hist) = clk_recovery_timeout_counter)

\* the last tick before the timeout: nine ticks spent in FAULT_ACTIVE
C40_Witness ==
    /\ clk_service_state = CLK_SERVICE_STATE_FAULT_ACTIVE
    /\ svc_op = "clk_service_task"
    /\ clk_recovery_timeout_counter = recovery_timeout_ticks - 1
    /\ Len(svc_hist) = recovery_timeout_ticks - 1

\* C39: fault_count counts new faults only: an aggregation (by
\* fsm_aggregate_faults, fault_aggregate, or the re-aggregation inside
\* fsm_clear_faults and fault_aggregator_reset) increases fault_count by 1
\* exactly when the aggregated set holds a fault bit that was not in
\* active_faults before the call, and leaves it unchanged otherwise.
C39_CountsNewFaultsOnly ==
    [][ (/\ op' \in {"fsm_aggregate_faults", "fault_aggregate",
                     "fsm_clear_faults", "fault_aggregator_reset"}
         /\ UNCHANGED not_fsm_vars) =>
            LET new == BitAnd(g_safety_status'.active_faults,
                              Not8(g_safety_status.active_faults))
            IN g_safety_status'.fault_count =
                   IF new # 0 THEN g_safety_status.fault_count + 1
                   ELSE g_safety_status.fault_count
      ]_vars

\* C38: fsm_clear_faults(mask) sets to clear (0x00 / 0xFF) exactly the flag
\* DRBs whose bit is in mask and leaves the other flag DRBs unchanged; when it
\* succeeds, the active_faults DRB afterwards is the OR of the flags that
\* remain set.
C38_ClearFaultsFrame ==
    [][ (op' = "fsm_clear_faults" /\ UNCHANGED not_fsm_vars) =>
          /\ \A s \in Sources :
                StatusFlag(g_safety_status', s) =
                    IF BitAnd(arg', FaultBit[s]) # 0 THEN <<0, 255>>
                    ELSE StatusFlag(g_safety_status, s)
          /\ ret' = TRUE => ActiveFaultsRefreshed
      ]_vars

\* the power flag was cleared with the clock flag set: the clock fault stays
\* active
C38_Witness ==
    /\ op = "fsm_clear_faults" /\ arg = FAULT_TYPE_VDD /\ ret = TRUE
    /\ StatusFlag(g_safety_status, "pwr") = <<0, 255>>
    /\ StatusFlag(g_safety_status, "clk") = <<170, 85>>
    /\ active_faults = FAULT_TYPE_CLK
    /\ g_safety_status.fault_count > 1

\* C36: with the state DRB violating value XOR complement = 0xFF,
\* fsm_transition(next), for any next, never leaves the FSM in a state for
\* which fsm_get_state() returns a value other than INVALID.
C36_CorruptStateNeverRepaired ==
    [][ (/\ op' = "fsm_transition" /\ UNCHANGED not_fsm_vars
         /\ ~VERIFY_STATE(g_safety_status.current_state,
                          g_safety_status.current_state_cmp)) =>
            FsmGetState(g_safety_status') = SAFETY_STATE_INVALID
      ]_vars


\* the power-mode DRB holds SAFE_STATE with its complement
InSafeState(ps) ==
    /\ ps.power_mode = POWER_MODE_SAFE_STATE
    /\ ps.power_mode_cmp = Not8(POWER_MODE_SAFE_STATE)

\* the calls the safe state has to survive
SafeStateCalls ==
    {"power_enter_safe_state", "power_request_recovery", "power_update_voltage",
     "power_get_status", "power_write_enabled"}

\* a power_enter_safe_state() that returns true leaves the DRB at SAFE_STATE, and
\* every later call of SafeStateCalls keeps it there with power_write_enabled()
\* false
SafeStateKept ==
    /\ (power_op' = "power_enter_safe_state" /\ power_ret')
          => InSafeState(g_power_state')
    /\ (InSafeState(g_power_state) /\ power_op' \in SafeStateCalls)
          => /\ InSafeState(g_power_state')
             /\ ~PowerWriteEnabled(g_power_module_initialized', g_power_state')

\* C33 as stated: HAL safe state is one-way: after power_enter_safe_state() has
\* returned true the power-mode DRB stays valid at SAFE_STATE and
\* power_write_enabled() stays false through every later
\* power_enter_safe_state, power_request_recovery, power_update_voltage and
\* power_get_status call, and only power_reset returns the mode to NORMAL.
C33_OnlyResetLeavesSafeState ==
    [][ /\ SafeStateKept
        /\ (InSafeState(g_power_state) /\ ~InSafeState(g_power_state'))
              => power_op' = "power_reset" ]_vars

\* C33 amended: the safe state is kept through every later
\* power_enter_safe_state, power_request_recovery, power_update_voltage,
\* power_get_status and power_write_enabled call; the mode returns to NORMAL
\* only in a power_reset whose power_init succeeds, or in the power_init that
\* follows a power_reset that failed and left the module uninitialised.
C33_SafeStateOneWay ==
    [][ /\ SafeStateKept
        /\ (InSafeState(g_power_state) /\ ~InSafeState(g_power_state'))
              => \/ power_op' = "power_reset" /\ power_ret'
                 \/ /\ power_op' = "power_init" /\ power_ret'
                    /\ ~g_power_module_initialized ]_vars

\* a recovery request was accepted in the safe state, which is still held
C33_Witness ==
    /\ power_op = "power_request_recovery" /\ power_ret = TRUE
    /\ POWER_CONTROL_REG = 8
    /\ InSafeState(g_power_state)
    /\ ~PowerWriteEnabled(g_power_module_initialized, g_power_state)

\* C34: whenever an aggregation moves the FSM from NORMAL to FAULT, the HAL
\* safe-state assertion is commanded in the same tick: at the end of the tick
\* the power mode is SAFE_STATE and writes are disabled.
C34_SafeStateCommandedInTick ==
    [][ ( /\ op' = "fault_aggregate"
          /\ FsmGetState(g_safety_status) = SAFETY_STATE_NORMAL
          /\ FsmGetState(g_safety_status') = SAFETY_STATE_FAULT )
        => /\ InSafeState(g_power_state')
           /\ ~PowerWriteEnabled(g_power_module_initialized', g_power_state') ]_vars

\* the fault selected from a fault set by the fixed order VDD > CLK > MEM, with
\* its priority number
FixedOrder(faults) ==
    IF BitAnd(faults, FAULT_TYPE_VDD) # 0 THEN <<FAULT_TYPE_VDD, 1>>
    ELSE IF BitAnd(faults, FAULT_TYPE_CLK) # 0 THEN <<FAULT_TYPE_CLK, 2>>
    ELSE IF BitAnd(faults, FAULT_TYPE_MEM_ECC) # 0 THEN <<FAULT_TYPE_MEM_ECC, 3>>
    ELSE <<FAULT_TYPE_NONE, 0>>

\* C35: the configured priorities do not influence fault selection: whatever
\* triple fault_set_priorities has stored, fault_aggregate returns the fault
\* that the fixed order VDD > CLK > MEM selects from the flags that are set,
\* and fault_get_highest_priority returns the fault and the priority number
\* that the fixed order selects from active_faults; the result is a function
\* of the fault set alone, so two runs that differ only in the stored
\* priorities return the same.
C35_PrioritiesDoNotInfluence ==
    [][ /\ (op' = "fault_aggregate" /\ out' # NotWritten)
              => out' = FixedOrder(FlagSet(g_safety_status))[1]
        /\ (op' = "fault_get_highest_priority" /\ ret')
              => <<out', prio'>> = FixedOrder(g_safety_status.active_faults) ]_vars

\* VDD was returned with priority 1 while the configuration ranks it last
C35_Witness ==
    /\ g_fault_priorities = [vdd_priority |-> 3, clk_priority |-> 3, mem_priority |-> 1]
    /\ op = "fault_get_highest_priority" /\ ret = TRUE
    /\ g_safety_status.active_faults = BitOr(FAULT_TYPE_VDD, FAULT_TYPE_MEM_ECC)
    /\ out = FAULT_TYPE_VDD /\ prio = 1

\* context c is inside fault_stats_get_statistics
Reading(c) ==
    stats_fn[c] = "fault_stats_get_statistics" /\ stats_pc[c] # "idle"

\* C31: the statistics lock is always released and readers make progress:
\* g_stats_locked is set only while a writer is between its lock and its
\* unlock statement, so every return path of a writer has cleared it, and a
\* fault_stats_get_statistics that has been called eventually returns, in the
\* task and in the context that preempts a writer holding the lock.
C31_LockReleasedReaderReturns ==
    /\ [](g_stats_locked => \E c \in StatsContexts : stats_pc[c] \in {"update", "unlock"})
    /\ \A c \in StatsContexts : (Reading(c) ~> ~Reading(c))

\* C37: fault_stats_get_statistics returns a consistent snapshot: the ten
\* fields a completed call has copied out equal the fields of one record that
\* g_fault_stats held between the call and the return (with one concurrent
\* writer: the record before or the record after its update).
C37_SnapshotConsistent ==
    \A c \in StatsContexts :
        ( /\ stats_fn[c] = "fault_stats_get_statistics"
          /\ stats_pc[c] = "idle"
          /\ stats_call_ret[c] = "true" )
        => stats_snapshot[c] \in stats_seen[c]

\* no FSM, aggregator, priority or statistics variable changes, the busy and
\* the lock flag included
ErrorFrame ==
    UNCHANGED <<g_safety_status, g_fsm_initialized, g_aggregator_busy, g_fault_priorities,
                g_fault_stats, g_stats_locked>>

\* context c is in a record call whose fault_type the switch rejects
UnknownTypeCall(c) ==
    /\ stats_fn[c] \in {"fault_stats_record_detected", "fault_stats_record_undetected"}
    /\ StatsSource(stats_call_arg[c]) = "none"

\* C32: argument and busy errors mutate nothing: fault_aggregate(NULL),
\* fault_aggregate / fault_aggregator_reset / fault_set_priorities while busy,
\* fault_set_priorities with a priority outside 1..3, fsm_get_status(NULL), a
\* second fsm_init(), record_detected / record_undetected while locked or with
\* an unknown fault type, and calculate_dc(NULL) return failure and leave
\* every FSM, aggregator, priority and statistics variable as it was before
\* the call; the call with an unknown fault type holds the lock between its
\* two statements and has released it when it returns.
C32_ErrorsMutateNothing ==
    [][ /\ (fault_aggregate_null \/ fsm_get_status_null) => (~ret' /\ ErrorFrame)
        /\ (g_fsm_initialized /\ fsm_init) => (~ret' /\ ErrorFrame)
        /\ \A p \in Callers :
              (g_aggregator_busy /\ (aggregate_enter(p) \/ reset_enter(p)))
                 => (gate_ret'[p] = "false" /\ gate_pc'[p] = "idle" /\ ErrorFrame)
        /\ LET vdd_priority == arg' \div 100
               clk_priority == (arg' \div 10) % 10
               mem_priority == arg' % 10
           IN  ( /\ op' = "fault_set_priorities"
                 /\ fault_set_priorities(vdd_priority, clk_priority, mem_priority)
                 /\ \/ g_aggregator_busy
                    \/ {vdd_priority, clk_priority, mem_priority} \cap {0, 4} # {} )
                  => (~ret' /\ ErrorFrame)
        /\ \A c \in StatsContexts :
              /\ (g_stats_locked /\ fault_stats_writer_lock(c))
                    => (stats_call_ret'[c] = "false" /\ stats_pc'[c] = "idle" /\ ErrorFrame)
              /\ (UnknownTypeCall(c) /\ fault_stats_writer_lock(c))
                    => g_fault_stats' = g_fault_stats
              /\ (UnknownTypeCall(c) /\ fault_stats_writer_update(c))
                    => /\ stats_call_ret'[c] = "false" /\ stats_pc'[c] = "idle"
                       /\ g_fault_stats' = g_fault_stats
                       /\ g_stats_locked' = FALSE
        /\ (\E t \in {FAULT_TYPE_VDD} : fault_stats_calculate_dc_null(t))
              => (~stats_ret' /\ ErrorFrame) ]_vars

\* priorities in range were refused while an aggregation held the busy flag,
\* and the configuration is the one of the initializer
C32_Witness ==
    /\ op = "fault_set_priorities" /\ arg = 321 /\ ret = FALSE
    /\ g_aggregator_busy
    /\ g_fault_priorities = [vdd_priority |-> 1, clk_priority |-> 2, mem_priority |-> 3]

====
